---- MODULE Spec2Model ----
(***************************************************************************)
(* Ingestion/scraping orchestration of the content manager:                *)
(* EnhancedScraperService.scrape_all_sources, its fetch strategies, the    *)
(* dedup check, the run status and the three entry points that start a     *)
(* run (HTTP trigger, SchedulerService.trigger_manual_scrape, cron job).   *)
(*                                                                         *)
(* Granularity: the service runs on one asyncio event loop, so a step of   *)
(* the model is a piece of a coroutine between two suspension points       *)
(* (database awaits, asyncio.sleep).  Texts are sequences of one-character *)
(* strings.  md5 is modelled as an injective function of its input: the    *)
(* digest of a key is the key itself.                                      *)
(***************************************************************************)
EXTENDS Integers, Sequences, FiniteSets, TLC

\* ------------------------------------------------------------------ bounds
MaxRuns == 2
MaxConcurrent == 2
MaxSources == 2
MaxClock == 38
MaxCalls == 2

\* ------------------------------------------------------------------- texts
Rep(c, n) == [j \in 1..n |-> c]

Lower(s) ==
    LET LowerCh(c) ==
            CASE c = "A" -> "a"
              [] c = "B" -> "b"
              [] c = "C" -> "c"
              [] c = "D" -> "d"
              [] c = "E" -> "e"
              [] c = "F" -> "f"
              [] c = "G" -> "g"
              [] c = "H" -> "h"
              [] c = "I" -> "i"
              [] c = "J" -> "j"
              [] c = "K" -> "k"
              [] c = "L" -> "l"
              [] c = "M" -> "m"
              [] c = "N" -> "n"
              [] c = "O" -> "o"
              [] c = "P" -> "p"
              [] c = "Q" -> "q"
              [] c = "R" -> "r"
              [] c = "S" -> "s"
              [] c = "T" -> "t"
              [] c = "U" -> "u"
              [] c = "V" -> "v"
              [] c = "W" -> "w"
              [] c = "X" -> "x"
              [] c = "Y" -> "y"
              [] c = "Z" -> "z"
              [] OTHER -> c
    IN  [j \in 1..Len(s) |-> LowerCh(s[j])]

IsSpace(c) == c = " "

RECURSIVE LStrip(_)
LStrip(s) == IF s # <<>> /\ IsSpace(Head(s)) THEN LStrip(Tail(s)) ELSE s

RECURSIVE RStrip(_)
RStrip(s) ==
    IF s # <<>> /\ IsSpace(s[Len(s)]) THEN RStrip(SubSeq(s, 1, Len(s) - 1)) ELSE s

Strip(s) == RStrip(LStrip(s))

Take(s, n) == SubSeq(s, 1, IF Len(s) < n THEN Len(s) ELSE n)

\* re.sub(r'\s+', ' ', s): every run of whitespace becomes one blank
RECURSIVE CollapseWs(_)
CollapseWs(s) ==
    IF s = <<>> THEN <<>>
    ELSE IF IsSpace(Head(s))
         THEN <<" ">> \o CollapseWs(LStrip(s))
         ELSE <<Head(s)>> \o CollapseWs(Tail(s))

\* re.sub(r'<[^>]+>', '', s): a '<', at least one non-'>' character, a '>'
RECURSIVE TagEnd(_, _)
TagEnd(s, j) ==
    IF j > Len(s) THEN 0
    ELSE IF s[j] = ">" THEN j
    ELSE TagEnd(s, j + 1)

RECURSIVE StripTags(_)
StripTags(s) ==
    IF s = <<>> THEN <<>>
    ELSE IF Head(s) = "<" /\ Len(s) >= 3 /\ s[2] # ">" /\ TagEnd(s, 3) # 0
         THEN StripTags(SubSeq(s, TagEnd(s, 3) + 1, Len(s)))
         ELSE <<Head(s)>> \o StripTags(Tail(s))

\* ----------------------------------------------------- quality thresholds
min_title_length == 10
min_content_length == 50
max_title_length == 300
max_content_length == 5000

IsPrefix(p, s) == Len(p) <= Len(s) /\ SubSeq(s, 1, Len(p)) = p

Contains(s, p) == \E j \in 0..(Len(s) - Len(p)) : SubSeq(s, j + 1, j + Len(p)) = p

IsSuffix(p, s) == Len(p) <= Len(s) /\ SubSeq(s, Len(s) - Len(p) + 1, Len(s)) = p

\* the alternatives of the three spam_patterns
SpamPhrases ==
    { <<"c","l","i","c","k"," ","h","e","r","e">>,
      <<"s","u","b","s","c","r","i","b","e"," ","n","o","w">>,
      <<"f","o","l","l","o","w"," ","u","s">>,
      <<"l","i","m","i","t","e","d"," ","t","i","m","e">>,
      <<"a","c","t"," ","n","o","w">>,
      <<"u","r","g","e","n","t">>,
      <<"f","r","e","e"," ","g","i","f","t">>,
      <<"1","0","0","%"," ","f","r","e","e">>,
      <<"n","o"," ","c","o","s","t">> }

\* a variant whose lower bounds are exclusive; C20 tells it from the source
_is_content_quality_sufficient_Exclusive(title, content) ==
    IF Len(title) <= min_title_length THEN FALSE
    ELSE IF Len(content) <= min_content_length THEN FALSE
    ELSE IF Len(title) > max_title_length THEN FALSE
    ELSE IF Len(content) > max_content_length THEN FALSE
    ELSE ~ \E p \in SpamPhrases : Contains(Lower(title \o <<" ">> \o content), p)

_is_content_quality_sufficient(title, content) ==
    IF Len(title) < min_title_length THEN FALSE
    ELSE IF Len(content) < min_content_length THEN FALSE
    ELSE IF Len(title) > max_title_length THEN FALSE
    ELSE IF Len(content) > max_content_length THEN FALSE
    ELSE ~ \E p \in SpamPhrases : Contains(Lower(title \o <<" ">> \o content), p)

_generate_content_hash(title, url) == Strip(Lower(title)) \o Strip(url)

_clean_title(title) ==
    IF title = <<>> THEN <<"U","n","t","i","t","l","e","d">>
    ELSE LET t1 == CollapseWs(Strip(title))
             t2 == IF \E p \in { <<"r","e",":">>, <<"f","w",":">>, <<"a","w",":">> } :
                        IsPrefix(p, Lower(t1))
                   THEN LStrip(SubSeq(t1, 4, Len(t1)))
                   ELSE t1
         IN  Take(t2, max_title_length)

_clean_content(content) ==
    IF content = <<>> THEN <<>>
    ELSE Take(CollapseWs(Strip(StripTags(content))), max_content_length)

\* ---------------------------------------------------------------- upstream
\* The texts the upstream sources of this model serve: titles, links,
\* summaries, a caption, a tweet; TitleRe and BodyTagged are texts that
\* their cleaning shortens, Brief is a short content value.
Texts ==
    [ TitleA |-> <<"A","l","p","h","a"," ","n","e","w","s">>,
      TitleShort |-> <<"S","h","o","r","t">>,
      LinkA |-> <<"h","t","t","p",":","/","/","a","/","1">>,
      LinkShort |-> <<"h","t","t","p",":","/","/","a","/","2">>,
      Body50 |-> Rep("x", 50),
      Caption |-> <<"B","e","t","a"," ">> \o Rep("y", 45),
      ShortcodeP1 |-> <<"p","1">>,
      TitleY |-> <<"G","a","m","m","a"," ","c","l","i","p">>,
      LinkY |-> <<"h","t","t","p",":","/","/","y","/","1">>,
      TweetText |-> <<"D","e","l","t","a"," ">> \o Rep("w", 44),
      TweetId |-> <<"7">>,
      TitleN |-> <<"D","e","l","t","a"," ","t","w","e","e","t">>,
      LinkN |-> <<"h","t","t","p",":","/","/","n","/","1">>,
      TitleW |-> <<"O","m","e","g","a"," ","p","a","g","e">>,
      UserTw |-> <<"u">>,
      TitleRe |-> <<"R","E",":"," ","a","b","c","d","e","f">>,
      LinkRe |-> <<"h","t","t","p",":","/","/","r","/","1">>,
      BodyTagged |-> <<"<","p",">">> \o Rep("x", 44) \o <<"<","/","p",">">>,
      TitleBrief |-> <<"G","a","m","m","a"," ","b","r","i","e","f">>,
      LinkBrief |-> <<"h","t","t","p",":","/","/","y","/","2">>,
      Brief |-> <<"B","r","i","e","f">> ]

\* the urls of the rows of the Source table
Urls ==
    [ FeedA |-> <<"h","t","t","p",":","/","/","a","/","f","e","e","d">>,
      FeedB |-> <<"h","t","t","p",":","/","/","b","/","f","e","e","d">>,
      FeedC |-> <<"h","t","t","p",":","/","/","c","/","f","e","e","d">>,
      FeedD |-> <<"h","t","t","p",":","/","/","d","/","f","e","e","d">>,
      Off |-> <<"h","t","t","p",":","/","/","o","/","f","e","e","d">>,
      Vid |-> <<"h","t","t","p",":","/","/","y","/","v">>,
      Yt |-> <<"h","t","t","p",":","/","/","y","/","c","h","a","n","n","e","l","/","c","1">>,
      Ig |-> <<"h","t","t","p",":","/","/","i","n","s","t","a","g","r","a","m",".","c","o","m","/","i","g">>,
      Tw |-> <<"h","t","t","p",":","/","/","t","w","i","t","t","e","r",".","c","o","m","/","u">>,
      Web |-> <<"h","t","t","p",":","/","/","w","/","f","e","e","d","s">>,
      Handle |-> <<"h","t","t","p",":","/","/","y","o","u","t","u","b","e",".","c","o","m","/","@","h">>,
      Long |-> <<"h","t","t","p",":","/","/","l","/","f","e","e","d">>,
      LongTube |-> <<"h","t","t","p",":","/","/","y","/","c","h","a","n","n","e","l","/","c","2">>,
      SiteFeed |-> <<"h","t","t","p",":","/","/","s","/","a",".","X","M","L">>,
      Tik |-> <<"h","t","t","p",":","/","/","t">>,
      Replies |-> <<"h","t","t","p",":","/","/","r","/","f","e","e","d">>,
      BriefTube |-> <<"h","t","t","p",":","/","/","y","/","c","h","a","n","n","e","l","/","c","3">> ]

InstagramPostPrefix == <<"h","t","t","p","s",":","/","/","w","w","w",".","i","n","s","t","a","g","r","a","m",".","c","o","m","/","p","/">>
TwitterPrefix == <<"h","t","t","p","s",":","/","/","t","w","i","t","t","e","r",".","c","o","m","/">>
StatusInfix == <<"/","s","t","a","t","u","s","/">>

\* feed.entries[:20] of the feed strategy, feed.entries[:15] of the
\* video-channel strategy
RssCap == 20
YoutubeCap == 15

\* The entries of a feed that is longer than the strategies read, in feed
\* order; each has its own link.
LongIds ==
    << "L01", "L02", "L03", "L04", "L05", "L06", "L07", "L08", "L09", "L10", "L11",
       "L12", "L13", "L14", "L15", "L16", "L17", "L18", "L19", "L20", "L21" >>
LongFeed(n) == SubSeq(LongIds, 1, n)
LongItem(id) ==
    LET n == CHOOSE j \in 1..Len(LongIds) : LongIds[j] = id
        Digits == <<"0","1","2","3","4","5","6","7","8","9">>
    IN  [title |-> <<"L","o","n","g"," ","f","e","e","d"," ">> \o
                     <<Digits[(n \div 10) + 1], Digits[(n % 10) + 1]>>,
         link |-> <<"h","t","t","p",":","/","/","l","/">> \o
                     <<Digits[(n \div 10) + 1], Digits[(n % 10) + 1]>>,
         summary |-> Texts.Body50, content |-> <<>>]

\* The items the upstream sources of this model serve, by name: feedparser
\* entries (title, link, summary, content values), an Instagram post, a
\* tweet and a web page.
Item(id) ==
    CASE id = "E1" -> [title |-> Texts.TitleA, link |-> Texts.LinkA, summary |-> Texts.Body50, content |-> <<>>]
      [] id = "EShort" -> [title |-> Texts.TitleShort, link |-> Texts.LinkShort, summary |-> Texts.Body50,
                           content |-> <<>>]
      \* a feed item that relays an Instagram post: the caption as title and
      \* the post's URL, followed by a blank, as link
      [] id = "E5" -> [title |-> Texts.Caption,
                       link |-> InstagramPostPrefix \o Texts.ShortcodeP1 \o <<"/", " ">>,
                       summary |-> <<>>, content |-> <<Texts.Body50>>]
      [] id = "Y1" -> [title |-> Texts.TitleY, link |-> Texts.LinkY, summary |-> Rep("z", 50),
                       content |-> <<>>]
      [] id = "N1" -> [title |-> Texts.TitleN, link |-> Texts.LinkN, summary |-> Rep("w", 50),
                       content |-> <<>>]
      [] id = "P1" -> [caption |-> Texts.Caption, shortcode |-> Texts.ShortcodeP1]
      [] id = "W1" -> [raw_content |-> Texts.TweetText, id |-> Texts.TweetId]
      [] id = "Page1" -> [title |-> Texts.TitleW, content |-> Rep("v", 50)]
      \* a reply: the title has a prefix and the summary is HTML
      [] id = "ERe" -> [title |-> Texts.TitleRe, link |-> Texts.LinkRe, summary |-> Texts.BodyTagged,
                        content |-> <<>>]
      \* a video whose entry has a summary and a short content value
      [] id = "YBrief" -> [title |-> Texts.TitleBrief, link |-> Texts.LinkBrief,
                           summary |-> Rep("z", 50), content |-> <<Texts.Brief>>]
      [] OTHER -> LongItem(id)

\* feedparser gives entry.description the value of entry.summary, so the last
\* test of the function never replaces the content
_extract_rss_content(entry) ==
    LET Longer(a, b) == IF b # <<>> /\ Len(b) > Len(a) THEN b ELSE a
        Fold[j \in 0..Len(entry.content)] ==
            IF j = 0 THEN entry.summary ELSE Longer(Fold[j - 1], entry.content[j])
    IN  Fold[Len(entry.content)]

_extract_youtube_description(entry) ==
    LET nonEmpty == { j \in 1..Len(entry.content) : entry.content[j] # <<>> }
    IN  IF nonEmpty = {} THEN entry.summary
        ELSE entry.content[CHOOSE j \in nonEmpty : \A m \in nonEmpty : j <= m]

\* ----------------------------------------------------------- Source table
NULL == 0 - 1

SourceRow(id, name, url, shape, platform, active, total) ==
    [id |-> id, name |-> name, url |-> url, shape |-> shape, platform |-> platform,
     is_active |-> active, last_scraped_at |-> 0, last_content_count |-> 0,
     total_content_count |-> total]

\* The rows a Source table of this model is made of.  shape is the form of
\* the url as the strategies' pattern tests see it.
Catalogue ==
    << SourceRow(1, "FeedA", Urls.FeedA, "feed", "rss", TRUE, 0),
       SourceRow(2, "Relay", Urls.FeedB, "feed", "rss", TRUE, 0),
       SourceRow(3, "Tube", Urls.Yt, "channel", "youtube", TRUE, 0),
       SourceRow(4, "Insta", Urls.Ig, "profile", "instagram", TRUE, 0),
       SourceRow(5, "Tweets", Urls.Tw, "profile", "twitter", TRUE, 0),
       SourceRow(6, "FeedC", Urls.FeedC, "feed", "RSS", TRUE, NULL),
       SourceRow(7, "FeedD", Urls.FeedD, "feed", "rss", TRUE, NULL),
       SourceRow(8, "Tik", Urls.Tik, "page", "tiktok", TRUE, 0),
       SourceRow(9, "Site", Urls.Web, "page", "website", TRUE, 0),
       SourceRow(10, "Vid", Urls.Vid, "other", "youtube", TRUE, 0),
       SourceRow(11, "Off", Urls.Off, "feed", "rss", FALSE, 0),
       SourceRow(12, "SiteFeed", Urls.SiteFeed, "page", "website", TRUE, 0),
       SourceRow(13, "LongFeed", Urls.Long, "feed", "rss", TRUE, 0),
       SourceRow(14, "LongTube", Urls.LongTube, "channel", "youtube", TRUE, 0),
       SourceRow(15, "Handle", Urls.Handle, "custom", "youtube", TRUE, 0),
       SourceRow(16, "Replies", Urls.Replies, "feed", "rss", TRUE, 0),
       SourceRow(17, "BriefTube", Urls.BriefTube, "channel", "youtube", TRUE, 0) >>

\* the Source tables the model starts from, as the sets of their row ids
TableIds == { {}, {11}, {1}, {3}, {4}, {5}, {6}, {9}, {7, 8}, {8, 12}, {7, 8, 10} }

\* str.lower() on the platform labels of the table
PlatformLower(p) == IF p = "RSS" THEN "rss" ELSE p

\* What the upstream of a source can answer to one fetch: a failure
\* (ok = FALSE) or a list of items.
Failure == [ok |-> FALSE, items |-> <<>>]
Answer(items) == [ok |-> TRUE, items |-> items]

Strats == {"rss", "youtube", "instagram", "twscrape", "nitter", "website"}

Upstream(id, strat) ==
    CASE strat = "rss" /\ id = 1 -> { Failure, Answer(<<"E1", "EShort">>) }
      [] strat = "rss" /\ id = 2 -> { Answer(<<"E5", "E1">>) }
      [] strat = "rss" /\ id = 6 -> { Answer(<<"E1">>), Answer(<<>>) }
      [] strat = "rss" /\ id = 13 -> { Answer(LongFeed(RssCap + 1)) }
      [] strat = "youtube" /\ id = 14 -> { Answer(LongFeed(YoutubeCap + 1)) }
      [] strat = "rss" /\ id = 16 -> { Answer(<<"ERe", "E1">>) }
      [] strat = "youtube" /\ id = 17 -> { Answer(<<"YBrief">>) }
      [] strat = "rss" -> { Answer(<<>>) }
      [] strat = "youtube" -> { Answer(<<"Y1">>), Answer(<<>>) }
      [] strat = "instagram" -> { Failure, Answer(<<"P1">>) }
      [] strat = "twscrape" -> { Failure, Answer(<<"W1">>) }
      [] strat = "nitter" -> { Answer(<<"N1">>), Answer(<<>>) }
      [] strat = "website" -> { Failure, Answer(<<"Page1">>) }
      [] OTHER -> { Failure }

\* ------------------------------------------------------------- strategies
InstagramCap == 10
TwitterCap == 10
TitlePrefixLen == 100

\* a variant with the rule of ScraperServiceV4._detect_platform, the word
\* feed anywhere in the url; C30 tells it from the source
FeedUrl_Anywhere(url) ==
    \/ IsSuffix(<<".","x","m","l">>, Lower(url))
    \/ IsSuffix(<<".","r","s","s">>, Lower(url))
    \/ Contains(Lower(url), <<"f","e","e","d">>)

\* re.search(r"(\.rss$|\.xml$|/feed/?$)", source.url, re.IGNORECASE), line 334
FeedUrl(url) ==
    \/ IsSuffix(<<".","r","s","s">>, Lower(url))
    \/ IsSuffix(<<".","x","m","l">>, Lower(url))
    \/ IsSuffix(<<"/","f","e","e","d">>, Lower(url))
    \/ IsSuffix(<<"/","f","e","e","d","/">>, Lower(url))

\* _scrape_source_enhanced, lines 331-336: the platform of this attempt
EffectivePlatform(src) ==
    LET declared == PlatformLower(src.platform)
    IN  IF declared = "website" /\ FeedUrl(src.url) THEN "rss" ELSE declared

\* a variant that gives every other platform to the website strategy; C29
\* tells it from the source
Strategy_ElseWebsite(src) ==
    LET platform == EffectivePlatform(src)
    IN  CASE platform = "youtube" -> "youtube"
          [] platform \in {"rss", "blog", "rss/blog"} -> "rss"
          [] platform = "instagram" -> "instagram"
          [] platform \in {"twitter", "x"} -> "twitter"
          [] OTHER -> "website"

\* _scrape_source_enhanced, lines 338-349: the strategy a source is given
Strategy(src) ==
    LET platform == EffectivePlatform(src)
    IN  CASE platform = "youtube" -> "youtube"
          [] platform \in {"rss", "blog", "rss/blog"} -> "rss"
          [] platform = "instagram" -> "instagram"
          [] platform \in {"twitter", "x"} -> "twitter"
          [] platform = "website" -> "website"
          [] OTHER -> "unsupported"

\* the import of yt_dlp at the head of the module has succeeded
YT_DLP_AVAILABLE == TRUE

\* _get_youtube_rss_url answers for the url forms that need no resolver
YoutubeRssUrlKnown(src) == src.shape \in {"feedsxml", "channel", "playlist"}

\* a variant that makes up a feed url when the resolver has failed; C37
\* tells it from the source
_get_youtube_rss_url_Guesses(src) ==
    IF YoutubeRssUrlKnown(src) THEN { [found |-> TRUE, resolver |-> ""] }
    ELSE IF src.shape \in {"video", "custom"}
    THEN IF YT_DLP_AVAILABLE
         THEN { [found |-> TRUE, resolver |-> "ok"], [found |-> TRUE, resolver |-> "failed"] }
         ELSE { [found |-> TRUE, resolver |-> "unavailable"] }
    ELSE { [found |-> FALSE, resolver |-> ""] }

\* _get_youtube_rss_url: what a call can return for a source, a feed url
\* (found) or None, and what became of the yt-dlp resolver the video, /c/,
\* /user/ and @ forms are given to: it found a channel id, or it raised or
\* found none, or the library is not installed
_get_youtube_rss_url(src) ==
    IF YoutubeRssUrlKnown(src) THEN { [found |-> TRUE, resolver |-> ""] }
    ELSE IF src.shape \in {"video", "custom"}
    THEN IF YT_DLP_AVAILABLE
         THEN { [found |-> TRUE, resolver |-> "ok"], [found |-> FALSE, resolver |-> "failed"] }
         ELSE { [found |-> FALSE, resolver |-> "unavailable"] }
    ELSE { [found |-> FALSE, resolver |-> ""] }

\* the values a strategy derives from one item: the texts given to the
\* quality gate, the link, the content hash and the fields of the Topic
Draft(strat, item, src) ==
    CASE strat = "rss" ->
           LET content == _extract_rss_content(item) IN
           [gtitle |-> item.title, gcontent |-> content, link |-> item.link,
            hash |-> _generate_content_hash(item.title, item.link),
            title |-> _clean_title(item.title), content |-> _clean_content(content),
            platform |-> src.platform, content_length |-> Len(content)]
      [] strat = "youtube" ->
           LET description == _extract_youtube_description(item) IN
           [gtitle |-> item.title, gcontent |-> item.summary, link |-> item.link,
            hash |-> _generate_content_hash(item.title, item.link),
            title |-> _clean_title(item.title), content |-> _clean_content(description),
            platform |-> "YouTube", content_length |-> Len(description)]
      [] strat = "instagram" ->
           LET post_url == InstagramPostPrefix \o item.shortcode \o <<"/">> IN
           [gtitle |-> Take(item.caption, TitlePrefixLen), gcontent |-> item.caption,
            link |-> post_url,
            hash |-> _generate_content_hash(item.caption, post_url),
            title |-> _clean_title(Take(item.caption, TitlePrefixLen)),
            content |-> _clean_content(item.caption),
            platform |-> "Instagram", content_length |-> Len(item.caption)]
      [] strat = "twscrape" ->
           LET title == Take(item.raw_content, TitlePrefixLen)
               link == TwitterPrefix \o Texts.UserTw \o StatusInfix \o item.id IN
           [gtitle |-> title, gcontent |-> item.raw_content, link |-> link,
            hash |-> _generate_content_hash(title, link),
            title |-> _clean_title(title), content |-> _clean_content(item.raw_content),
            platform |-> "Twitter", content_length |-> Len(item.raw_content)]
      [] strat = "nitter" ->
           [gtitle |-> item.title, gcontent |-> item.summary, link |-> item.link,
            hash |-> _generate_content_hash(item.title, item.link),
            title |-> _clean_title(item.title), content |-> _clean_content(item.summary),
            platform |-> "Twitter", content_length |-> Len(item.summary)]
      [] strat = "website" ->
           [gtitle |-> item.title, gcontent |-> item.content, link |-> src.url,
            hash |-> _generate_content_hash(item.title, src.url),
            title |-> _clean_title(item.title), content |-> _clean_content(item.content),
            platform |-> "Website", content_length |-> Len(item.content)]

\* a variant that stores a new row as already reviewed; C33 tells it from
\* the source
Topic_Liked(d, src) ==
    [title |-> d.title, description |-> d.hash, content |-> d.content,
     platform |-> d.platform, source |-> src.name, link |-> d.link,
     status |-> "liked", liked_at |-> NULL, disliked_at |-> NULL,
     content_length |-> d.content_length]

\* Topic(...) as the strategies call it: status, liked_at and disliked_at are
\* not passed and take the defaults of their columns
Topic(d, src) ==
    [title |-> d.title, description |-> d.hash, content |-> d.content,
     platform |-> d.platform, source |-> src.name, link |-> d.link,
     status |-> "pending", liked_at |-> NULL, disliked_at |-> NULL,
     content_length |-> d.content_length]

\* Every (strategy, item, source) of the model with its draft, the verdict
\* of the quality gate on it and its Topic, computed once.
DraftKeys ==
    { k \in Strats \X ({"E1", "EShort", "E5", "Y1", "N1", "P1", "W1", "Page1", "ERe", "YBrief"}
                          \cup { LongIds[j] : j \in 1..Len(LongIds) })
                   \X (1..Len(Catalogue)) :
        \E a \in Upstream(k[3], k[1]) : \E j \in 1..Len(a.items) : a.items[j] = k[2] }

Drafts ==
    { [key |-> k,
       draft |-> Draft(k[1], Item(k[2]), Catalogue[k[3]]),
       gate |-> LET d == Draft(k[1], Item(k[2]), Catalogue[k[3]])
                IN  _is_content_quality_sufficient(d.gtitle, d.gcontent),
       topic |-> Topic(Draft(k[1], Item(k[2]), Catalogue[k[3]]), Catalogue[k[3]])] :
      k \in DraftKeys }

DraftOf(strat, id, src) == CHOOSE e \in Drafts : e.key = <<strat, id, src.id>>

\* ------------------------------------------------------------------- state
VARIABLES
    scraping_status,    \* EnhancedScraperService.scraping_status
    sched_status,       \* scheduler_service.scraping_status.status
    sourcesTbl,         \* rows of the sources table, in table order
    topics,             \* rows of the topics table, in insertion order
    runs,               \* the executions of scrape_all_sources
    last_requests,      \* keys of EnhancedScraperService.last_requests
    twitter_logged_in,  \* twitter_api is set and its pool is logged in
    clock,              \* time.time(), in tenths of a second
    stamps,             \* the times in last_requests, of either service
    caller,             \* the flows that call the rate limiters
    gate,               \* one call of _is_content_quality_sufficient
    scoring,            \* one call of a popularity score
    discovery           \* one call of discover_feeds and what its caller adopts

mainVars == <<scraping_status, sched_status, sourcesTbl, topics, runs,
              last_requests, twitter_logged_in>>

limiterVars == <<clock, stamps, caller>>

vars == <<scraping_status, sched_status, sourcesTbl, topics, runs,
          last_requests, twitter_logged_in, clock, stamps, caller, gate, scoring,
          discovery>>

RunIds == 1..MaxRuns

INSTALOADER_AVAILABLE == TRUE
TWSCRAPE_AVAILABLE == TRUE

\* Times are kept as the event they were taken at: 0 is None, the HTTP
\* trigger of run r reads TriggerTime(r), run r itself reads RunTime(r).
TriggerTime(r) == 2 * r - 1
RunTime(r) == 2 * r

StatusDict(status, current_source, start_time) ==
    [status |-> status, processed |-> 0, total |-> 0,
     current_source |-> current_source, new_content_count |-> 0,
     errors |-> <<>>, start_time |-> start_time, end_time |-> 0]

ScrapingResult(success, new_content_count, error, skipped_count, processed_count) ==
    [success |-> success, new_content_count |-> new_content_count, error |-> error,
     skipped_count |-> skipped_count, processed_count |-> processed_count]

\* a variant of the handlers that drops the text of the exception; C14 tells
\* it from the source
FailedResult_NoText(text) == ScrapingResult(FALSE, 0, "", 0, 0)

FailedResult(text) == ScrapingResult(FALSE, 0, text, 0, 0)

NoResponse ==
    [success |-> FALSE, total_new_content |-> 0, sources_processed |-> 0,
     total_sources |-> 0, errors |-> <<>>, message |-> ""]

\* One execution of scrape_all_sources: its position, its local variables,
\* the locals of the strategy it is in, and what it returned.  load_error,
\* fetched, seen, checked, inserted, tried, at_load and log record what
\* happened and are read by no action: whether the query for the sources
\* raised, the Source table at that query, the answer of the upstream, the number of topics rows at the fetch, the number
\* of topics rows at the dedup query of the entry that waits for its insert,
\* the rows this pass inserted, the methods of the Twitter chain that were
\* invoked, and one entry per source the run has finished (in_table: the
\* source was in the Source table when the run finished it; resolver: what
\* became of the yt-dlp resolver; strat: the
\* strategy that was given the source; delay: the interval that
\* _apply_rate_limiting looked up for the source's platform label).
NoRun ==
    [pc |-> "none", kind |-> "", sources |-> <<>>, i |-> 0,
     total_new_content |-> 0, sources_processed |-> 0, errors |-> <<>>,
     strat |-> "", items |-> <<>>, k |-> 0,
     new_content_count |-> 0, skipped_count |-> 0, processed_count |-> 0,
     response |-> NoResponse,
     load_error |-> FALSE, fetched |-> Failure, seen |-> 0, checked |-> 0,
     inserted |-> 0, tried |-> <<>>, resolver |-> "", at_load |-> <<>>, log |-> <<>>]

\* a variant of the query without its where clause; C16 tells it from the
\* source
SelectActive_All(tbl) == tbl

\* select(Source).where(Source.is_active == True)
SelectActive(tbl) == SelectSeq(tbl, LAMBDA s : s.is_active = TRUE)

\* The database at start-up: a Source table with no topics, or the Instagram
\* source with the one topic that an earlier run inserted for item E5 of the
\* feed Relay, a source deleted since (DELETE /api/sources/{id} leaves the
\* topics of the source in place).  The stored topic has been liked in the
\* review since.
Stores ==
    { [sources |-> SelectSeq(Catalogue, LAMBDA s : s.id \in S), topics |-> <<>>] :
        S \in { T \in TableIds : Cardinality(T) <= MaxSources } }
      \cup { [sources |-> SelectSeq(Catalogue, LAMBDA s : s.id = 4),
               topics |-> << [DraftOf("rss", "E5", Catalogue[2]).topic
                                EXCEPT !.status = "liked", !.liked_at = 1] >>] }

\* ------------------------------------------------------------ rate limiters
\* Times are tenths of a second.  time.time() at start-up is later than any
\* delay after the epoch.
StartClock == 20

\* EnhancedScraperService.rate_limits, 'delay_between_requests': the label
\* is looked up as the caller gives it, any other label gets 'default'
delay_between_requests(platform) ==
    CASE platform = "youtube" -> 10
      [] platform = "instagram" -> 30
      [] platform = "twitter" -> 20
      [] platform = "rss" -> 5
      [] platform = "website" -> 7
      [] OTHER -> 10

\* ScraperServiceV4.rate_limits
rate_limit(platform) ==
    CASE platform = "instagram" -> 30
      [] platform = "twitter" -> 25
      [] platform = "website" -> 10
      [] OTHER -> 15


\* ScraperServiceV4._detect_platform: the platform of a url
_detect_platform(url) ==
    LET url_lower == Lower(url)
    IN  IF Contains(url_lower, <<"i","n","s","t","a","g","r","a","m",".","c","o","m">>)
        THEN "instagram"
        ELSE IF \/ Contains(url_lower, <<"t","w","i","t","t","e","r",".","c","o","m">>)
                \/ Contains(url_lower, <<"x",".","c","o","m">>)
        THEN "twitter"
        ELSE IF \/ IsSuffix(<<".","x","m","l">>, url_lower)
                \/ IsSuffix(<<".","r","s","s">>, url_lower)
                \/ Contains(url_lower, <<"f","e","e","d">>)
        THEN "rss"
        ELSE "website"

\* the urls scrape_content is called with
V4Urls == {Urls.FeedA, Urls.Web, Urls.SiteFeed}

\* the platform labels the caller of the limiters uses
EnhancedPlatforms == {"rss", "RSS"}
V4Platforms == { _detect_platform(u) : u \in V4Urls }

\* _apply_rate_limiting, lines 281-287: the time to sleep, 0 for none; last
\* is NULL when the key is not in last_requests
EnhancedWait_None(platform, last, now) == 0

EnhancedWait(platform, last, now) ==
    IF last = NULL THEN 0
    ELSE IF now - last < delay_between_requests(platform)
         THEN delay_between_requests(platform) - (now - last)
         ELSE 0

\* _rate_limit, lines 124-132: a key that is not there counts as time 0
V4Wait(platform, last, now) ==
    LET last_request == IF last = NULL THEN 0 ELSE last
        time_since_last == now - last_request
    IN  IF time_since_last < rate_limit(platform)
        THEN rate_limit(platform) - time_since_last
        ELSE 0

NoStamps == [svc \in {"enhanced", "v4"} |-> [p \in EnhancedPlatforms \cup V4Platforms |-> NULL]]

\* the flows that call the limiters: runs of scrape_all_sources that overlap
Flows == {1, 2}

\* The caller is idle or asleep in a limiter; calls lists the calls that have
\* returned, with the time of the return.
IdleCaller(calls) == [pc |-> "idle", svc |-> "", platform |-> "", wake_at |-> 0, calls |-> calls]

\* a call of the quality gate: its two arguments, whether the title was made
\* with a spam phrase in it, and what the call returned
GateCall(pc, title, content, spam, verdict) ==
    [pc |-> pc, title |-> title, content |-> content, spam |-> spam, verdict |-> verdict]

NoGateCall == GateCall("none", <<>>, <<>>, FALSE, FALSE)

InitService ==
    /\ clock = StartClock
    /\ stamps = NoStamps
    /\ caller = [f \in Flows |-> IdleCaller(<<>>)]
    /\ scraping_status = StatusDict("idle", "", 0)
    /\ sched_status = "idle"
    /\ \E st \in Stores : sourcesTbl = st.sources /\ topics = st.topics
    /\ runs = [r \in RunIds |-> NoRun]
    /\ last_requests = {}
    /\ twitter_logged_in = FALSE

\* a call of a popularity score: the strategy, what the score is computed
\* from, and the score, in hundredths of a point
ScoreCall(pc, strat, length, days_old, likes, comments, is_video, score) ==
    [pc |-> pc, strat |-> strat, length |-> length, days_old |-> days_old,
     likes |-> likes, comments |-> comments, is_video |-> is_video, score |-> score]

NoScoreCall == ScoreCall("none", "", 0, NULL, 0, 0, FALSE, 0)

\* a call of discover_feeds by analyze_and_fetch_source_details: the page
\* and the answers of the feed URLs, the list of candidates before the
\* duplicates are removed, the dict returned, and the URL the caller adopts
DiscoveryCall(pc, page_ok, links, parsed_paths, collected, success, feeds, final_url) ==
    [pc |-> pc, page_ok |-> page_ok, links |-> links, parsed_paths |-> parsed_paths,
     collected |-> collected, success |-> success, feeds |-> feeds,
     final_url |-> final_url]

NoDiscovery == DiscoveryCall("none", FALSE, <<>>, {}, <<>>, FALSE, <<>>, [site |-> "", path |-> ""])

Init == InitService /\ gate = NoGateCall /\ scoring = NoScoreCall /\ discovery = NoDiscovery

InProgress(r) == runs[r].pc \notin {"none", "queued", "returned"}

\* run r is the next one to be started, and fewer than MaxConcurrent runs are
\* queued or in progress
Fresh(r) ==
    /\ runs[r].pc = "none"
    /\ \A q \in RunIds : q < r => runs[q].pc # "none"
    /\ Cardinality({ q \in RunIds : runs[q].pc \notin {"none", "returned"} }) < MaxConcurrent

\* --------------------------------------------------------- entry points
\* scrape_all_sources, lines 141-152: the status is replaced by a new dict
StartBody(r, kind) ==
    /\ scraping_status' = StatusDict("running", "Baslatiliyor...", RunTime(r))
    /\ runs' = [runs EXCEPT ![r] = [NoRun EXCEPT !.pc = "load", !.kind = kind]]

\* POST /api/scrape/trigger
trigger_manual_scrape ==
    \E r \in RunIds :
        /\ Fresh(r)
        /\ scraping_status' = StatusDict("starting", "Initializing...", TriggerTime(r))
        /\ runs' = [runs EXCEPT ![r] = [NoRun EXCEPT !.pc = "queued", !.kind = "task"]]
        /\ UNCHANGED <<sched_status, sourcesTbl, topics, last_requests, twitter_logged_in>>
        /\ UNCHANGED <<limiterVars, gate, scoring, discovery>>

\* SchedulerService.trigger_manual_scrape: asyncio.create_task
SchedulerService_trigger_manual_scrape ==
    \E r \in RunIds :
        /\ Fresh(r)
        /\ runs' = [runs EXCEPT ![r] = [NoRun EXCEPT !.pc = "queued", !.kind = "task"]]
        /\ UNCHANGED <<scraping_status, sched_status, sourcesTbl, topics,
                       last_requests, twitter_logged_in>>
        /\ UNCHANGED <<limiterVars, gate, scoring, discovery>>

\* the task queued by a trigger starts to run scrape_all_sources
StartRun(r) ==
    /\ runs[r].pc = "queued"
    /\ StartBody(r, "task")
    /\ UNCHANGED <<sched_status, sourcesTbl, topics, last_requests, twitter_logged_in>>
    /\ UNCHANGED <<limiterVars, gate, scoring, discovery>>

\* the cron job (max_instances = 1) calls scrape_all_sources directly
_scheduled_scrape ==
    \E r \in RunIds :
        /\ Fresh(r)
        /\ \A q \in RunIds : ~ (runs[q].kind = "cron" /\ runs[q].pc # "returned")
        /\ sched_status' = "running"
        /\ StartBody(r, "cron")
        /\ UNCHANGED <<sourcesTbl, topics, last_requests, twitter_logged_in>>
        /\ UNCHANGED <<limiterVars, gate, scoring, discovery>>

\* _scheduled_scrape after scrape_all_sources has returned
AfterReturn(kind, success) ==
    IF kind = "cron" THEN (IF success THEN "idle" ELSE "failed") ELSE sched_status

\* POST /api/twitter/login, when the pool logs in
twitter_login ==
    /\ TWSCRAPE_AVAILABLE
    /\ ~ twitter_logged_in
    /\ twitter_logged_in' = TRUE
    /\ UNCHANGED <<scraping_status, sched_status, sourcesTbl, topics, runs, last_requests>>
    /\ UNCHANGED <<limiterVars, gate, scoring, discovery>>

\* ----------------------------------------------------------- orchestrator
ErrorOf(src, kind, text) == [source |-> src, kind |-> kind, text |-> text]

\* lines 182-183, the head of the loop body
BeginIter(st, src, idx) == [st EXCEPT !.processed = idx, !.current_source = src.name]

\* a variant of the handler that returns the failure without marking the
\* status; C7 tells it from the handler of the source
FatalReturn_KeepsStatus(r, rec, text) ==
    /\ UNCHANGED scraping_status
    /\ runs' = [runs EXCEPT ![r] =
                   [rec EXCEPT !.pc = "returned",
                               !.response = [NoResponse EXCEPT !.success = FALSE,
                                                               !.errors = <<text>>,
                                                               !.message = "fatal"]]]
    /\ sched_status' = AfterReturn(runs[r].kind, FALSE)

\* lines 259-273, the handler of the outer try
FatalReturn(r, rec, text) ==
    /\ scraping_status' =
          [scraping_status EXCEPT !.status = "failed",
                                  !.errors = Append(@, ErrorOf("", "fatal", text)),
                                  !.end_time = RunTime(r)]
    /\ runs' = [runs EXCEPT ![r] =
                   [rec EXCEPT !.pc = "returned",
                               !.response = [NoResponse EXCEPT !.success = FALSE,
                                                               !.errors = <<text>>,
                                                               !.message = "fatal"]]]
    /\ sched_status' = AfterReturn(runs[r].kind, FALSE)

\* lines 156-183: the query for the active sources, the early return when
\* there is none, and the first pass through the head of the loop
LoadSources(r, dbok) ==
    /\ runs[r].pc = "load"
    /\ IF ~ dbok THEN FatalReturn(r, [runs[r] EXCEPT !.load_error = TRUE], "db")
       ELSE LET sources == SelectActive(sourcesTbl) IN
            IF sources = <<>>
            THEN /\ runs' = [runs EXCEPT ![r].pc = "returned",
                                         ![r].at_load = sourcesTbl,
                                         ![r].response =
                                             [NoResponse EXCEPT !.success = TRUE,
                                                                !.message = "No active sources found"]]
                 /\ sched_status' = AfterReturn(runs[r].kind, TRUE)
                 /\ UNCHANGED scraping_status
            ELSE /\ runs' = [runs EXCEPT ![r].pc = "fetch", ![r].sources = sources, ![r].i = 1,
                                         ![r].at_load = sourcesTbl]
                 /\ scraping_status' =
                        BeginIter([scraping_status EXCEPT !.total = Len(sources)], sources[1], 1)
                 /\ UNCHANGED sched_status
    /\ UNCHANGED <<sourcesTbl, topics, last_requests, twitter_logged_in>>
    /\ UNCHANGED <<limiterVars, gate, scoring, discovery>>

\* a variant that also switches the source off; C34 tells it from the source
UpdatedSource_Deactivates(src, n, now) ==
    [src EXCEPT !.last_scraped_at = now,
                !.last_content_count = n,
                !.total_content_count = IF @ = NULL THEN NULL ELSE @ + n,
                !.is_active = FALSE]

\* lines 207-211: the loaded Source object is changed in memory; adding to a
\* total_content_count that is NULL raises TypeError after the two
\* assignments before it
UpdatedSource(src, n, now) ==
    [src EXCEPT !.last_scraped_at = now,
                !.last_content_count = n,
                !.total_content_count = IF @ = NULL THEN NULL ELSE @ + n]

\* a variant that lets an exception of the loop body pass unrecorded; C4
\* tells it from the source
SourceErrors_DropsUnexpected(src, res) ==
    IF ~ res.success THEN <<ErrorOf(src.name, "failed", res.error)>> ELSE <<>>

\* the errors that lines 214-228 add for a source: one for a failed result,
\* one for an exception raised in the loop body
SourceErrors(src, res) ==
    IF ~ res.success THEN <<ErrorOf(src.name, "failed", res.error)>>
    ELSE IF src.total_content_count = NULL
    THEN <<ErrorOf(src.name, "unexpected", "TypeError")>>
    ELSE <<>>

\* a variant whose summary reports success only for a run without errors; C8
\* tells it from the source
Response_FailsOnErrors(rec) ==
    [success |-> rec.errors = <<>>, total_new_content |-> rec.total_new_content,
     sources_processed |-> rec.sources_processed, total_sources |-> Len(rec.sources),
     errors |-> rec.errors, message |-> "Scraping completed successfully"]

\* the summary of lines 238-254
Response(rec) ==
    [success |-> TRUE, total_new_content |-> rec.total_new_content,
     sources_processed |-> rec.sources_processed, total_sources |-> Len(rec.sources),
     errors |-> rec.errors, message |-> "Scraping completed successfully"]

\* a variant that ends a run with errors as failed; C6 tells it from the
\* source
CompletedStatus_FailsOnErrors(st, now) ==
    [st EXCEPT !.status = IF st.errors = <<>> THEN "completed" ELSE "failed",
               !.end_time = now]

\* lines 230-235, after the loop
CompletedStatus(st, now) == [st EXCEPT !.status = "completed", !.end_time = now]

\* a variant that puts the new entries at the head of the list; C28 tells it
\* from the source
errors_append_AtHead(errors, err) == err \o errors

\* errors.append(error_msg), lines 216-217 and 226-227
errors_append(errors, err) == errors \o err

\* lines 193-257: a strategy has returned res to run r, whose record is rec
\* and which sees `after` rows in the topics table; the orchestrator books
\* the result, then enters the next pass of the loop or completes the run
EndSource(r, rec, res, after) ==
    LET src == rec.sources[rec.i]
        err == SourceErrors(src, res)
        total == IF res.success THEN rec.total_new_content + res.new_content_count
                 ELSE rec.total_new_content
        rec1 == [rec EXCEPT
                   !.total_new_content = total,
                   !.sources_processed = IF res.success THEN @ + 1 ELSE @,
                   !.errors = errors_append(@, err),
                   !.sources = IF res.success
                               THEN [@ EXCEPT ![rec.i] =
                                       UpdatedSource(src, res.new_content_count, RunTime(r))]
                               ELSE @,
                   !.strat = "", !.items = <<>>, !.k = 0,
                   !.new_content_count = 0, !.skipped_count = 0, !.processed_count = 0,
                   !.fetched = Failure, !.seen = 0, !.inserted = 0, !.tried = <<>>,
                   !.resolver = "",
                   !.log = Append(@, [source |-> src.id, strat |-> rec.strat,
                                      delay |-> delay_between_requests(src.platform),
                                      resolver |-> rec.resolver,
                                      fetched |-> rec.fetched,
                                      tried |-> rec.tried,
                                      in_table |-> \E j \in 1..Len(sourcesTbl) :
                                                      sourcesTbl[j].id = src.id,
                                      seen |-> rec.seen, after |-> after,
                                      inserted |-> rec.inserted, result |-> res])]
        st1 == [scraping_status EXCEPT
                   !.new_content_count = IF res.success THEN total ELSE @,
                   !.errors = errors_append(@, err)]
    IN  IF rec.i < Len(rec.sources)
        THEN /\ runs' = [runs EXCEPT ![r] = [rec1 EXCEPT !.pc = "fetch", !.i = @ + 1]]
             /\ scraping_status' = BeginIter(st1, rec.sources[rec.i + 1], rec.i + 1)
             /\ UNCHANGED sched_status
        ELSE /\ runs' = [runs EXCEPT ![r] = [rec1 EXCEPT !.pc = "returned",
                                                         !.response = Response(rec1)]]
             /\ scraping_status' = CompletedStatus(st1, RunTime(r))
             /\ sched_status' = AfterReturn(rec.kind, TRUE)

\* what a strategy returns when its loop over the entries has ended; the
\* TwScrape branch then calls self.logger, an attribute the service does not
\* have, in the try block and again in its handler
LoopResult(rec) ==
    IF rec.strat = "twscrape" THEN FailedResult("AttributeError")
    ELSE ScrapingResult(TRUE, rec.new_content_count, "", rec.skipped_count,
                        rec.processed_count)

\* the strategy of run r goes on to its next item, or returns
Advance(r, rec, after) ==
    IF rec.k + 1 > Len(rec.items)
    THEN EndSource(r, rec, LoopResult(rec), after)
    ELSE /\ runs' = [runs EXCEPT ![r] = [rec EXCEPT !.pc = "entry", !.k = @ + 1]]
         /\ UNCHANGED <<scraping_status, sched_status>>

\* a variant that reads the whole feed; C36 tells it from the source
StartLoop_WholeFeed(r, rec, strat, a, cap) ==
    Advance(r, [rec EXCEPT !.strat = strat, !.items = a.items, !.k = 0,
                           !.fetched = a], Len(topics))

\* for entry in feed.entries[:cap]: the loop of a strategy begins
StartLoop(r, rec, strat, a, cap) ==
    Advance(r, [rec EXCEPT !.strat = strat, !.items = Take(a.items, cap), !.k = 0,
                           !.fetched = a], Len(topics))

\* the rows a dedup query of a strategy selects
ByLink(d) == { j \in 1..Len(topics) : topics[j].link = d.link }
ByHash(d) == { j \in 1..Len(topics) : topics[j].description = d.hash }

\* scalar_one_or_none on the rows of one query: MultipleResultsFound is
\* raised for two rows or more, one row is a duplicate
OneOrNone(rows) ==
    IF Cardinality(rows) >= 2 THEN "raise"
    ELSE IF Cardinality(rows) = 1 THEN "dup" ELSE "new"

\* a variant without dedup queries; C5 tells it from the source
DedupOutcome_NoQuery(strat, d) == "new"

\* the dedup queries of each strategy: the video-channel strategy asks by
\* link and then by hash, the Instagram strategy by link only, the others
\* by link or hash in one query
DedupOutcome(strat, d) ==
    CASE strat = "youtube" ->
           IF OneOrNone(ByLink(d)) # "new" THEN OneOrNone(ByLink(d))
           ELSE OneOrNone(ByHash(d))
      [] strat = "instagram" -> OneOrNone(ByLink(d))
      [] OTHER -> OneOrNone(ByLink(d) \cup ByHash(d))

CountsSkipped(strat) == strat \in {"rss", "youtube"}

CurrentSource(r) == runs[r].sources[runs[r].i]
CurrentDraft(r) == DraftOf(runs[r].strat, runs[r].items[runs[r].k], CurrentSource(r))

\* lines 187-191 of the loop body: the rate limiter records the request
\* under the source's platform label, the strategy is chosen and it fetches
Fetch(r) ==
    /\ runs[r].pc = "fetch"
    /\ LET src == CurrentSource(r)
           s == Strategy(src)
           rec == [runs[r] EXCEPT !.seen = Len(topics), !.strat = s]
           Return(res) == EndSource(r, rec, res, Len(topics))
       IN  CASE s = "unsupported" -> Return(FailedResult("Unsupported platform"))
             [] s = "youtube" ->
                  \E rss_url \in _get_youtube_rss_url(src) :
                    LET rec1 == [rec EXCEPT !.resolver = rss_url.resolver] IN
                    IF ~ rss_url.found
                    THEN EndSource(r, rec1,
                                   FailedResult("Could not convert YouTube URL to RSS feed"),
                                   Len(topics))
                    ELSE \E a \in Upstream(src.id, "youtube") :
                           IF a.items = <<>>
                           THEN EndSource(r, [rec1 EXCEPT !.fetched = a],
                                          ScrapingResult(TRUE, 0, "", 0, 0), Len(topics))
                           ELSE StartLoop(r, rec1, "youtube", a, YoutubeCap)
             [] s = "rss" ->
                  \E a \in Upstream(src.id, "rss") :
                    IF ~ a.ok THEN Return(FailedResult("fetch"))
                    ELSE IF a.items = <<>>
                    THEN EndSource(r, [rec EXCEPT !.fetched = a],
                                   ScrapingResult(TRUE, 0, "", 0, 0), Len(topics))
                    ELSE StartLoop(r, rec, "rss", a, RssCap)
             [] s = "instagram" ->
                  IF ~ INSTALOADER_AVAILABLE
                  THEN Return(FailedResult("Instaloader not available"))
                  ELSE IF src.shape # "profile"
                  THEN Return(FailedResult("Could not extract Instagram profile name from URL"))
                  ELSE \E a \in Upstream(src.id, "instagram") :
                         IF ~ a.ok THEN Return(FailedResult("fetch"))
                         ELSE StartLoop(r, rec, "instagram", a, InstagramCap)
             [] s = "twitter" ->
                  IF src.shape # "profile"
                  THEN Return(FailedResult("Could not extract Twitter username from URL"))
                  ELSE IF TWSCRAPE_AVAILABLE /\ twitter_logged_in
                  THEN \E a \in Upstream(src.id, "twscrape") :
                         IF ~ a.ok
                         THEN EndSource(r, [rec EXCEPT !.tried = <<"twscrape">>],
                                        FailedResult("AttributeError"), Len(topics))
                         ELSE StartLoop(r, [rec EXCEPT !.tried = <<"twscrape">>],
                                        "twscrape", a, TwitterCap)
                  ELSE \E a \in Upstream(src.id, "nitter") :
                         IF a.items = <<>>
                         THEN EndSource(r, [rec EXCEPT !.fetched = a, !.tried = <<"nitter">>],
                                        FailedResult("Nitter RSS empty"), Len(topics))
                         ELSE StartLoop(r, [rec EXCEPT !.tried = <<"nitter">>],
                                        "nitter", a, TwitterCap)
             [] s = "website" ->
                  \E a \in Upstream(src.id, "website") :
                    IF ~ a.ok THEN Return(FailedResult("fetch"))
                    ELSE StartLoop(r, rec, "website", a, 1)
    /\ last_requests' = last_requests \cup {CurrentSource(r).platform}
    /\ UNCHANGED <<sourcesTbl, topics, twitter_logged_in>>
    /\ UNCHANGED <<limiterVars, gate, scoring, discovery>>

\* one pass through a strategy's loop up to the dedup query: the quality
\* gate and the query, in the order the strategy has them
CheckEntry(r) ==
    /\ runs[r].pc = "entry"
    /\ LET strat == runs[r].strat
           e == CurrentDraft(r)
           outcome == DedupOutcome(strat, e.draft)
           rec == IF strat = "website" THEN runs[r]
                  ELSE [runs[r] EXCEPT !.processed_count = @ + 1]
           skip == IF CountsSkipped(strat) THEN [rec EXCEPT !.skipped_count = @ + 1] ELSE rec
           Return(res) == EndSource(r, rec, res, Len(topics))
           Raise == Return(FailedResult("MultipleResultsFound"))
           Insert == /\ runs' = [runs EXCEPT ![r] = [rec EXCEPT !.pc = "insert",
                                                               !.checked = Len(topics)]]
                     /\ UNCHANGED <<scraping_status, sched_status>>
       IN  CASE strat = "instagram" ->
                  IF outcome = "raise" THEN Raise
                  ELSE IF outcome = "dup" THEN Advance(r, rec, Len(topics))
                  ELSE IF ~ e.gate THEN Advance(r, rec, Len(topics))
                  ELSE Insert
             [] strat = "website" ->
                  IF ~ e.gate
                  THEN Return(ScrapingResult(TRUE, 0, "Content quality below threshold", 0, 0))
                  ELSE IF outcome = "raise" THEN Raise
                  ELSE IF outcome = "dup" THEN Return(ScrapingResult(TRUE, 0, "", 1, 0))
                  ELSE Insert
             [] OTHER ->
                  IF ~ e.gate THEN Advance(r, skip, Len(topics))
                  ELSE IF outcome = "raise" THEN Raise
                  ELSE IF outcome = "dup" THEN Advance(r, skip, Len(topics))
                  ELSE Insert
    /\ UNCHANGED <<sourcesTbl, topics, last_requests, twitter_logged_in>>
    /\ UNCHANGED <<limiterVars, gate, scoring, discovery>>

\* a variant whose rollback also undoes what earlier sessions committed; C17
\* tells it from the source
get_db_UndoesEarlier(tbl, row, dbok) == IF dbok THEN Append(tbl, row) ELSE <<>>

\* database.get_db around db.add(row): the session commits the row, or the
\* write raises, the session rolls back and the table is as it was
get_db(tbl, row, dbok) == IF dbok THEN Append(tbl, row) ELSE tbl

\* db.add(topic) and the commit, then the rest of the loop body
InsertEntry(r, dbok) ==
    /\ runs[r].pc = "insert"
    /\ topics' = get_db(topics, CurrentDraft(r).topic, dbok)
    /\ IF dbok
       THEN /\ LET rec == [runs[r] EXCEPT !.new_content_count = @ + 1, !.inserted = @ + 1,
                                          !.checked = 0]
               IN  IF rec.strat = "website"
                   THEN EndSource(r, rec, ScrapingResult(TRUE, 1, "", 0, 1), Len(topics) + 1)
                   ELSE Advance(r, rec, Len(topics) + 1)
       ELSE EndSource(r, [runs[r] EXCEPT !.checked = 0], FailedResult("db"), Len(topics))
    /\ UNCHANGED <<sourcesTbl, last_requests, twitter_logged_in>>
    /\ UNCHANGED <<limiterVars, gate, scoring, discovery>>

Next ==
    \/ trigger_manual_scrape
    \/ SchedulerService_trigger_manual_scrape
    \/ _scheduled_scrape
    \/ twitter_login
    \/ \E r \in RunIds : StartRun(r)
    \/ \E r \in RunIds, dbok \in BOOLEAN : LoadSources(r, dbok)
    \/ \E r \in RunIds : Fetch(r)
    \/ \E r \in RunIds : CheckEntry(r)
    \/ \E r \in RunIds, dbok \in BOOLEAN : InsertEntry(r, dbok)

Spec == Init /\ [][Next]_vars

\* ------------------------------------------------------ the sources API
\* The rows of the catalogue that requests to the sources API are about.
ApiSourceIds == {2, 10}

\* POST /api/sources: the analysed URL is not in the table yet and the row
\* is added with the defaults of the Source columns
create_source ==
    \E id \in ApiSourceIds :
        /\ Len(sourcesTbl) < MaxSources
        /\ \A j \in 1..Len(sourcesTbl) : sourcesTbl[j].url # Catalogue[id].url
        /\ sourcesTbl' = Append(sourcesTbl, Catalogue[id])
        /\ UNCHANGED <<scraping_status, sched_status, topics, runs, last_requests,
                       twitter_logged_in>>
        /\ UNCHANGED <<limiterVars, gate, scoring, discovery>>

\* DELETE /api/sources/{source_id}: the row goes, its topics stay
delete_source ==
    \E id \in ApiSourceIds :
        /\ \E j \in 1..Len(sourcesTbl) : sourcesTbl[j].id = id
        /\ sourcesTbl' = SelectSeq(sourcesTbl, LAMBDA s : s.id # id)
        /\ UNCHANGED <<scraping_status, sched_status, topics, runs, last_requests,
                       twitter_logged_in>>
        /\ UNCHANGED <<limiterVars, gate, scoring, discovery>>

\* The runs of the cron job together with the sources API, from the table
\* without rows and the one with the inactive feed.
SourcesInit == Init /\ topics = <<>> /\ \A j \in 1..Len(sourcesTbl) : sourcesTbl[j].id = 11

SourcesNext ==
    \/ _scheduled_scrape
    \/ \E r \in RunIds, dbok \in BOOLEAN : LoadSources(r, dbok)
    \/ \E r \in RunIds : Fetch(r)
    \/ \E r \in RunIds : CheckEntry(r)
    \/ \E r \in RunIds, dbok \in BOOLEAN : InsertEntry(r, dbok)
    \/ create_source
    \/ delete_source

SourcesSpec == SourcesInit /\ [][SourcesNext]_vars

\* ------------------------------------------------------- long feeds
\* The service at start-up over one of the given tables, without topics.
TablesInit(tableIds) ==
    /\ clock = StartClock
    /\ stamps = NoStamps
    /\ caller = [f \in Flows |-> IdleCaller(<<>>)]
    /\ scraping_status = StatusDict("idle", "", 0)
    /\ sched_status = "idle"
    /\ \E T \in tableIds : sourcesTbl = SelectSeq(Catalogue, LAMBDA s : s.id \in T)
    /\ topics = <<>>
    /\ runs = [r \in RunIds |-> NoRun]
    /\ last_requests = {}
    /\ twitter_logged_in = FALSE
    /\ gate = NoGateCall
    /\ scoring = NoScoreCall
    /\ discovery = NoDiscovery

\* The runs of the cron job over a table with one of the long feeds, the
\* sources whose feeds have one entry more than their strategy reads.
CapInit == TablesInit({ {13}, {14} })

CapNext ==
    \/ _scheduled_scrape
    \/ \E r \in RunIds, dbok \in BOOLEAN : LoadSources(r, dbok)
    \/ \E r \in RunIds : Fetch(r)
    \/ \E r \in RunIds : CheckEntry(r)
    \/ \E r \in RunIds, dbok \in BOOLEAN : InsertEntry(r, dbok)

CapSpec == CapInit /\ [][CapNext]_vars

\* ------------------------------------------- video channels by handle
\* The tables with the channel that is given by its handle (15), alone and
\* next to the channel given by an unsupported url (10) or by its id (3).
ResolverInit == TablesInit({ {15}, {10, 15}, {3, 15} })

ResolverSpec == ResolverInit /\ [][CapNext]_vars

\* ------------------------------------------- texts that cleaning shortens
\* The tables with the feed of replies (16) and the channel of short
\* descriptions (17), alone, together and next to the plain feed (1).
CleanInit == TablesInit({ {16}, {17}, {16, 17}, {1, 16} })

CleanSpec == CleanInit /\ [][CapNext]_vars

\* ------------------------------------------- fetches that get no answer
\* The fetch calls whose wait is bounded: session.get(url, timeout=15) of the
\* feed and website strategies (lines 460, 880, 887); the Instaloader and
\* twscrape clients are taken to keep the request timeouts of their
\* libraries.  feedparser.parse(url) of the video-channel strategy (line
\* 372) and of the Nitter fallback (line 1454) opens the url itself and is
\* given no timeout.
HasTimeout(strat) == strat \in {"rss", "website", "instagram", "twscrape"}

\* the strategy of run r's source calls an upstream that never responds
FetchHangs(r) ==
    /\ runs[r].pc = "fetch"
    /\ LET src == CurrentSource(r)
           s == Strategy(src)
           strat == IF s # "twitter" THEN s
                    ELSE IF TWSCRAPE_AVAILABLE /\ twitter_logged_in THEN "twscrape"
                    ELSE "nitter"
       IN  /\ s # "unsupported"
           /\ s = "youtube" => YoutubeRssUrlKnown(src)
           /\ s = "instagram" => INSTALOADER_AVAILABLE /\ src.shape = "profile"
           /\ s = "twitter" => src.shape = "profile"
           /\ runs' = [runs EXCEPT ![r].pc = "waiting", ![r].strat = strat,
                                    ![r].seen = Len(topics),
                                    ![r].tried = IF s = "twitter" THEN <<strat>> ELSE @]
    /\ last_requests' = last_requests \cup {CurrentSource(r).platform}
    /\ UNCHANGED <<scraping_status, sched_status, sourcesTbl, topics, twitter_logged_in>>
    /\ UNCHANGED <<limiterVars, gate, scoring, discovery>>

\* the timeout of the pending call expires: the call raises, and the handler
\* of the strategy returns a failed result
TimeoutExpires(r) ==
    /\ runs[r].pc = "waiting"
    /\ HasTimeout(runs[r].strat)
    /\ EndSource(r, runs[r],
                 IF runs[r].strat = "twscrape" THEN FailedResult("AttributeError")
                 ELSE FailedResult("fetch"),
                 Len(topics))
    /\ UNCHANGED <<sourcesTbl, topics, last_requests, twitter_logged_in>>
    /\ UNCHANGED <<limiterVars, gate, scoring, discovery>>

\* The runs of the cron job over a table with an active source, where an
\* upstream may never respond.
HangInit == Init /\ topics = <<>> /\ SelectActive(sourcesTbl) # <<>>

\* a step of run r
RunStep(r) ==
    \/ \E dbok \in BOOLEAN : LoadSources(r, dbok)
    \/ Fetch(r)
    \/ FetchHangs(r)
    \/ TimeoutExpires(r)
    \/ CheckEntry(r)
    \/ \E dbok \in BOOLEAN : InsertEntry(r, dbok)

HangNext ==
    \/ _scheduled_scrape
    \/ \E r \in RunIds : RunStep(r)

\* The event loop resumes the coroutine of a run whenever the call it waits
\* for has returned or raised: a run that can take a step takes one.
HangSpec == HangInit /\ [][HangNext]_vars /\ \A r \in RunIds : WF_vars(RunStep(r))

\* ------------------------------------------------- the quality gate alone
\* a title of n characters, with a spam phrase at its head or without one
GateTitle(n, c, spam) ==
    IF spam THEN <<"U","R","G","E","N","T">> \o Rep(c, n - 6) ELSE Rep(c, n)

\* The gate is called with texts of the lengths around its four thresholds.
GateInit ==
    /\ InitService
    /\ sourcesTbl = <<>> /\ topics = <<>>
    /\ \E n \in {9, 10, 11, 299, 300, 301}, m \in {49, 50, 51, 4999, 5000, 5001},
          c \in {"a", "Q"}, spam \in BOOLEAN :
          gate = GateCall("called", GateTitle(n, c, spam), Rep("b", m), spam, FALSE)
    /\ scoring = NoScoreCall
    /\ discovery = NoDiscovery

\* the gate returns
GateReturn ==
    /\ gate.pc = "called"
    /\ gate' = [gate EXCEPT !.pc = "returned",
                            !.verdict = _is_content_quality_sufficient(gate.title, gate.content)]
    /\ UNCHANGED <<mainVars, limiterVars, scoring, discovery>>

GateNext == GateReturn

GateSpec == GateInit /\ [][GateNext]_vars

\* --------------------------------------------------- popularity scores
\* Scores are in hundredths of a point, so that len / 100 is exact.
Point == 100

Min(a, b) == IF a < b THEN a ELSE b

\* _calculate_youtube_popularity: days_old is NULL without published_parsed
_calculate_youtube_popularity(length, days_old) ==
    LET base == length
        boost == IF days_old = NULL THEN 0
                 ELSE IF days_old < 7 THEN 50 * Point
                 ELSE IF days_old < 30 THEN 25 * Point ELSE 0
    IN  Min(base + boost, 100 * Point)

\* _calculate_rss_popularity
_calculate_rss_popularity(length, days_old) ==
    LET base == 2 * length
        boost == IF days_old = NULL THEN 0
                 ELSE IF days_old < 3 THEN 30 * Point
                 ELSE IF days_old < 14 THEN 15 * Point ELSE 0
    IN  Min(base + boost, 100 * Point)

\* _calculate_instagram_popularity
_calculate_instagram_popularity(likes, comments, days_old, is_video) ==
    LET boost == IF days_old < 1 THEN 20 * Point
                 ELSE IF days_old < 7 THEN 10 * Point ELSE 0
    IN  Min(Min(likes, 50 * Point) + Min(10 * comments, 25 * Point) + boost
              + (IF is_video THEN 5 * Point ELSE 0), 100 * Point)

\* _calculate_twitter_popularity, for an entry of the feed fallback
_calculate_twitter_popularity(length) ==
    Min(10 * Point + Min(10 * length, 30 * Point) + 20 * Point, 100 * Point)

\* line 710, the TwScrape branch: min(len(content) / 10, 100)
TwScrapePopularity(length) == Min(10 * length, 100 * Point)

\* line 930, the website strategy: len(content) // 10
WebsitePopularity(length) == (length \div 10) * Point

\* the popularity_score a strategy gives to the Topic it builds
popularity_score(c) ==
    CASE c.strat = "youtube" -> _calculate_youtube_popularity(c.length, c.days_old)
      [] c.strat = "rss" -> _calculate_rss_popularity(c.length, c.days_old)
      [] c.strat = "instagram" ->
           _calculate_instagram_popularity(c.likes, c.comments,
                                           IF c.days_old = NULL THEN 0 ELSE c.days_old,
                                           c.is_video)
      [] c.strat = "nitter" -> _calculate_twitter_popularity(c.length)
      [] c.strat = "twscrape" -> TwScrapePopularity(c.length)
      [] c.strat = "website" -> WebsitePopularity(c.length)

\* The content lengths, all of them lengths the quality gate lets through,
\* the ages in days and the engagement numbers the scores are computed for.
ScoreInit ==
    /\ InitService
    /\ sourcesTbl = <<>> /\ topics = <<>>
    /\ gate = NoGateCall
    /\ \E s \in Strats, n \in {min_content_length, 1009, 1010, max_content_length},
          d \in {NULL, 0, 5, 20}, l \in {0, 6000}, c \in {0, 300}, v \in BOOLEAN :
          scoring = ScoreCall("called", s, n, d, l, c, v, 0)
    /\ discovery = NoDiscovery

\* the strategy builds its Topic with the score
ScoreReturn ==
    /\ scoring.pc = "called"
    /\ scoring' = [scoring EXCEPT !.pc = "returned", !.score = popularity_score(scoring)]
    /\ UNCHANGED <<mainVars, limiterVars, gate, discovery>>

ScoreNext == ScoreReturn

ScoreSpec == ScoreInit /\ [][ScoreNext]_vars

\* ------------------------------------------------------- feed discovery
\* An absolute URL is a site and a path; an href is one of these, or a path
\* alone (a relative href), or nothing at all.
Url(site, path) == [site |-> site, path |-> path]

NoUrl == Url("", "")

\* urljoin(url, href), for an href or a path that starts with a slash
urljoin(url, href) == Url(url.site, href.path)

\* the page analysed
PageUrl == Url("https://site.example", "/")

\* line 1321
common_paths == <<"/rss", "/feed", "/atom.xml", "/rss.xml", "/feed.xml", "/feeds/all.atom.xml">>

ScoreLinkParsed == 90
ScorePathParsed == 80
ScoreLinkUnparsed == 70
TopFeeds == 5

\* an element of feeds: origin and parsed say which branch appended it
Candidate(url, score, origin, parsed) ==
    [url |-> url, score |-> score, origin |-> origin, parsed |-> parsed]

\* lines 1290-1318, one link tag: the answer of its URL is "parsed" (200 and
\* a feed), "empty" (200 and no feed), "status" (not 200) or "raises"
FeedOfLink(url, link) ==
    IF link.href = NoUrl THEN <<>>
    ELSE LET href == IF link.href.site # "" THEN link.href ELSE urljoin(url, link.href)
         IN  CASE link.answer = "parsed" -> << Candidate(href, ScoreLinkParsed, "link", TRUE) >>
               [] link.answer = "raises" -> << Candidate(href, ScoreLinkUnparsed, "link", FALSE) >>
               [] OTHER -> <<>>

\* lines 1322-1339, one conventional path
FeedOfPath(url, path, parsed_paths) ==
    IF path \in parsed_paths
    THEN << Candidate(urljoin(url, Url("", path)), ScorePathParsed, "path", TRUE) >>
    ELSE <<>>

RECURSIVE Flatten(_)
Flatten(ss) == IF ss = <<>> THEN <<>> ELSE Head(ss) \o Flatten(Tail(ss))

\* lines 1342-1347: the first candidate of each URL stays
RECURSIVE UniqueFeeds(_, _)
UniqueFeeds(feeds, seen_urls) ==
    IF feeds = <<>> THEN <<>>
    ELSE IF Head(feeds).url \in seen_urls THEN UniqueFeeds(Tail(feeds), seen_urls)
    ELSE << Head(feeds) >> \o UniqueFeeds(Tail(feeds), seen_urls \cup { Head(feeds).url })

\* line 1350, list.sort(key=score, reverse=True): candidates of one score
\* keep their order
RECURSIVE SortByScore_Ascending(_)
SortByScore_Ascending(feeds) ==
    IF feeds = <<>> THEN <<>>
    ELSE LET x == Head(feeds)
             rest == SortByScore_Ascending(Tail(feeds))
         IN  SelectSeq(rest, LAMBDA f : f.score < x.score) \o << x >>
               \o SelectSeq(rest, LAMBDA f : f.score >= x.score)

RECURSIVE SortByScore(_)
SortByScore(feeds) ==
    IF feeds = <<>> THEN <<>>
    ELSE LET x == Head(feeds)
             rest == SortByScore(Tail(feeds))
         IN  SelectSeq(rest, LAMBDA f : f.score > x.score) \o << x >>
               \o SelectSeq(rest, LAMBDA f : f.score <= x.score)

\* feeds as it is when the two loops are over
CollectedFeeds(url, links, parsed_paths) ==
    Flatten([j \in 1..Len(links) |-> FeedOfLink(url, links[j])])
      \o Flatten([j \in 1..Len(common_paths) |-> FeedOfPath(url, common_paths[j], parsed_paths)])

\* discover_feeds: page_ok is false when the page itself cannot be fetched
discover_feeds(url, page_ok, links, parsed_paths) ==
    IF ~ page_ok THEN [success |-> FALSE, feeds |-> <<>>]
    ELSE [success |-> TRUE,
          feeds |-> Take(SortByScore(UniqueFeeds(CollectedFeeds(url, links, parsed_paths), {})),
                         TopFeeds)]

\* The link tags of a page: no href, a relative href, the same feed by its
\* absolute URL, and a feed that is at none of the conventional paths.
MaxLinks == 2
LinkLists ==
    LET Hrefs == { NoUrl, Url("", "/feed"), Url(PageUrl.site, "/feed"), Url("", "/blog.xml") }
        LinkAnswers == {"parsed", "empty", "status", "raises"}
        LinkTags == [href : Hrefs, answer : LinkAnswers]
    IN  UNION { [1..n -> LinkTags] : n \in 0..MaxLinks }

\* the conventional paths that answer with a feed
ParsedPathSets ==
    { {}, {"/feed"}, {"/rss", "/feed"}, {"/atom.xml", "/feeds/all.atom.xml"},
      { common_paths[j] : j \in 1..Len(common_paths) } }

DiscoverInit ==
    /\ InitService
    /\ sourcesTbl = <<>> /\ topics = <<>>
    /\ gate = NoGateCall
    /\ scoring = NoScoreCall
    /\ \/ discovery = DiscoveryCall("called", FALSE, <<>>, {}, <<>>, FALSE, <<>>, PageUrl)
       \/ \E links \in LinkLists, parsed_paths \in ParsedPathSets :
             discovery = DiscoveryCall("called", TRUE, links, parsed_paths, <<>>, FALSE,
                                       <<>>, PageUrl)

\* discover_feeds returns
DiscoverReturn ==
    /\ discovery.pc = "called"
    /\ LET d == discover_feeds(PageUrl, discovery.page_ok, discovery.links,
                               discovery.parsed_paths)
       IN  discovery' = [discovery EXCEPT
                           !.pc = "returned",
                           !.collected = IF discovery.page_ok
                                         THEN CollectedFeeds(PageUrl, discovery.links,
                                                             discovery.parsed_paths)
                                         ELSE <<>>,
                           !.success = d.success,
                           !.feeds = d.feeds]
    /\ UNCHANGED <<mainVars, limiterVars, gate, scoring>>

\* analyze_and_fetch_source_details takes the first feed, or keeps the URL
AdoptBestFeed ==
    /\ discovery.pc = "returned"
    /\ discovery' = [discovery EXCEPT
                       !.pc = "adopted",
                       !.final_url = IF discovery.success /\ discovery.feeds # <<>>
                                     THEN discovery.feeds[1].url
                                     ELSE discovery.final_url]
    /\ UNCHANGED <<mainVars, limiterVars, gate, scoring>>

DiscoverNext == DiscoverReturn \/ AdoptBestFeed

DiscoverSpec == DiscoverInit /\ [][DiscoverNext]_vars

\* ------------------------------------------------- rate limiters in time
\* The flows that call the two limiters, and the clock.
Tick ==
    /\ clock < MaxClock
    /\ clock' = clock + 1
    /\ UNCHANGED <<stamps, caller>>
    /\ UNCHANGED <<mainVars, gate, scoring, discovery>>

\* the last statement of either limiter: the key gets the time, the call
\* of flow f returns
LimiterReturn(f, svc, platform, slept) ==
    /\ stamps' = [stamps EXCEPT ![svc][platform] = clock]
    /\ caller' = [caller EXCEPT ![f] = IdleCaller(Append(caller[f].calls,
                     [svc |-> svc, platform |-> platform, at |-> clock, slept |-> slept]))]

LimiterEnter(f, svc, platform, wait) ==
    /\ caller[f].pc = "idle"
    /\ Len(caller[f].calls) < MaxCalls
    /\ IF wait > 0
       THEN /\ caller' = [caller EXCEPT ![f].pc = "sleep", ![f].svc = svc,
                                        ![f].platform = platform,
                                        ![f].wake_at = clock + wait]
            /\ UNCHANGED stamps
       ELSE LimiterReturn(f, svc, platform, FALSE)
    /\ UNCHANGED clock
    /\ UNCHANGED <<mainVars, gate, scoring, discovery>>

\* EnhancedScraperService._apply_rate_limiting up to its sleep
_apply_rate_limiting(f) ==
    \E p \in EnhancedPlatforms :
        LimiterEnter(f, "enhanced", p, EnhancedWait(p, stamps["enhanced"][p], clock))

\* ScraperServiceV4._rate_limit up to its sleep
_rate_limit(f) ==
    \E p \in V4Platforms :
        LimiterEnter(f, "v4", p, V4Wait(p, stamps["v4"][p], clock))

\* asyncio.sleep returns, not before the time asked for
SleepReturns(f) ==
    /\ caller[f].pc = "sleep"
    /\ clock >= caller[f].wake_at
    /\ LimiterReturn(f, caller[f].svc, caller[f].platform, TRUE)
    /\ UNCHANGED clock
    /\ UNCHANGED <<mainVars, gate, scoring, discovery>>

LimiterInit == Init /\ sourcesTbl = <<>> /\ topics = <<>>

\* one sequential caller: flow 1 alone
LimiterNext == Tick \/ _apply_rate_limiting(1) \/ _rate_limit(1) \/ SleepReturns(1)

LimiterSpec == LimiterInit /\ [][LimiterNext]_vars

\* the flows of overlapping runs in _apply_rate_limiting, for MaxCalls + 1
\* calls in all
OverlapNext ==
    \/ Tick
    \/ \E f \in Flows :
          \* the calls the flows have made, returned or not
          /\ Len(caller[1].calls) + Len(caller[2].calls)
                + Cardinality({ g \in Flows : caller[g].pc = "sleep" }) <= MaxCalls
          /\ _apply_rate_limiting(f)
    \/ \E f \in Flows : SleepReturns(f)

OverlapSpec == LimiterInit /\ [][OverlapNext]_vars

\* ------------------------------------------------------------- properties
\* C1: at most one execution of scrape_all_sources is in progress at any
\* time; a request made while a run is in progress starts no second one.
C1_SingleExecution == Cardinality({ r \in RunIds : InProgress(r) }) <= 1

\* C2: no two rows of the topics table written by ingestion carry the same
\* content fingerprint.
C2_UniqueFingerprints ==
    \A j, m \in 1..Len(topics) :
        j # m => topics[j].description # topics[m].description

\* C3: whatever the strategy, an entry goes on to be inserted only when, at
\* its dedup query, no stored topic has its link and none has its fingerprint.
C3_RejectsOnLinkOrFingerprint ==
    [][\A r \in RunIds :
         (runs[r].pc = "entry" /\ runs'[r].pc = "insert")
            => ByLink(CurrentDraft(r).draft) \cup ByHash(CurrentDraft(r).draft) = {}]_vars

\* C4: a source whose processing fails, by a failed result or by an exception
\* raised in the loop body, does not stop the run: the sources are finished
\* in order, a run in its loop is at the source after the last finished one,
\* a returned run has finished every source it loaded, and each failing
\* source is in the run's error list exactly once.
C4_FailureIsolated ==
    \A r \in RunIds :
        LET rec == runs[r]
            Fails(j) == \/ ~ rec.log[j].result.success
                        \/ rec.sources[j].total_content_count = NULL
            Listed(j) == { n \in 1..Len(rec.errors) :
                             rec.errors[n].source = rec.sources[j].name }
        IN  /\ Len(rec.log) <= Len(rec.sources)
            /\ \A j \in 1..Len(rec.log) :
                 /\ rec.log[j].source = rec.sources[j].id
                 /\ Fails(j) => Cardinality(Listed(j)) = 1
            /\ rec.pc \in {"fetch", "entry", "insert"} => rec.i = Len(rec.log) + 1
            /\ rec.pc = "returned" =>
                 /\ Len(rec.log) = Len(rec.sources)
                 /\ rec.sources # <<>> => rec.response.errors = rec.errors

\* C4, its case: a returned run whose first source raised in the loop body
\* and whose second source was processed after it.
C4_Witness ==
    \E r \in RunIds :
        /\ runs[r].pc = "returned"
        /\ Len(runs[r].log) >= 2
        /\ runs[r].log[1].result.success
        /\ runs[r].sources[1].total_content_count = NULL
        /\ Len(runs[r].response.errors) >= 1
        /\ runs[r].response.errors[1].kind = "unexpected"

C6_LoopEndCompletes ==
    [][\A r \in RunIds :
         (runs[r].pc \in {"fetch", "entry", "insert"} /\ runs'[r].pc = "returned")
            => scraping_status'.status = "completed"]_vars

\* C6, its case: a run whose sources all failed has returned and the status
\* is completed.
C6_Witness ==
    \E r \in RunIds :
        /\ runs[r].pc = "returned"
        /\ runs[r].sources # <<>>
        /\ runs[r].sources_processed = 0
        /\ Len(runs[r].errors) = Len(runs[r].sources)
        /\ scraping_status.status = "completed"
        /\ scraping_status.errors # <<>>

\* C7: the step in which the query for the active sources raises sets the
\* status to failed, records the fatal error last in the status errors and
\* returns success = FALSE; and no other step, the failure of a source
\* included, turns the status into failed.
C7_FatalSetsFailed ==
    [][/\ \A r \in RunIds :
            (~ runs[r].load_error /\ runs'[r].load_error) =>
                /\ scraping_status'.status = "failed"
                /\ Len(scraping_status'.errors) = Len(scraping_status.errors) + 1
                /\ scraping_status'.errors[Len(scraping_status'.errors)].kind = "fatal"
                /\ runs'[r].pc = "returned"
                /\ ~ runs'[r].response.success
       /\ (scraping_status'.status = "failed" /\ scraping_status.status # "failed")
            => \E r \in RunIds : ~ runs[r].load_error /\ runs'[r].load_error]_vars

\* C7, its case: one run has returned with a failed source, another run could
\* not load the sources, and the status is failed.
C7_Witness ==
    /\ scraping_status.status = "failed"
    /\ \E r \in RunIds :
         /\ runs[r].load_error
         /\ runs[r].pc = "returned"
         /\ ~ runs[r].response.success
    /\ \E r \in RunIds :
         /\ runs[r].pc = "returned"
         /\ runs[r].response.success
         /\ runs[r].errors # <<>>

\* C8: a returned run has a summary; its success is TRUE exactly when the
\* query for the sources did not raise, a failed run's summary carries the
\* error, and a successful one counts the loaded sources and lists every
\* source that failed.
C8_SummaryAlwaysReturned ==
    \A r \in RunIds :
        LET rec == runs[r]
            resp == rec.response
            Fails(j) == \/ ~ rec.log[j].result.success
                        \/ rec.sources[j].total_content_count = NULL
        IN  rec.pc = "returned" =>
              /\ resp.success = (~ rec.load_error)
              /\ rec.load_error => resp.errors # <<>>
              /\ ~ rec.load_error =>
                   /\ resp.total_sources = Len(rec.sources)
                   /\ Len(rec.log) = Len(rec.sources)
                   /\ \A j \in 1..Len(rec.log) :
                        Fails(j) => \E n \in 1..Len(resp.errors) :
                                       resp.errors[n].source = rec.sources[j].name

\* C8, its case: a returned run that processed one source, failed on another
\* and reports success with the failure listed.
C8_Witness ==
    \E r \in RunIds :
        /\ runs[r].pc = "returned"
        /\ runs[r].response.success
        /\ runs[r].response.sources_processed >= 1
        /\ runs[r].response.sources_processed < runs[r].response.total_sources
        /\ runs[r].response.errors # <<>>

\* C9: once the status is completed or failed, it changes only in a step in
\* which a new run starts: a trigger queues it or its execution begins.
C9_TerminalUntilNextRun ==
    [][(scraping_status.status \in {"completed", "failed"}
        /\ scraping_status'.status # scraping_status.status)
          => \E r \in RunIds : /\ runs[r].pc \in {"none", "queued"}
                               /\ runs'[r].pc \in {"queued", "load"}]_vars

\* C10: the status is always one of idle, running, completed, failed.
C10_StatusDomain ==
    scraping_status.status \in {"idle", "running", "completed", "failed"}

\* C11: a step that requests a run while the status is running (a trigger
\* queues the run, or the cron job begins it) leaves the whole status dict as
\* it is: state, progress, current source, new-content count, errors and
\* start time.
C11_TriggerWhileRunningIsNoOp ==
    [][(scraping_status.status = "running"
        /\ \E r \in RunIds : runs[r].pc = "none" /\ runs'[r].pc # "none")
          => scraping_status' = scraping_status]_vars

\* C12: while an entry waits for its insert, no topic with its link or its
\* fingerprint has been inserted since its dedup query.
C12_CheckThenInsertAtomic ==
    \A r \in RunIds :
        runs[r].pc = "insert" =>
            \A j \in (runs[r].checked + 1)..Len(topics) :
                /\ topics[j].link # CurrentDraft(r).draft.link
                /\ topics[j].description # CurrentDraft(r).draft.hash

\* C13: for the sequential caller, any two calls of a limiter with the same
\* platform key return at least that key's delay apart.
C13_SpacedReturns ==
    \A i, j \in 1..Len(caller[1].calls) :
        LET a == caller[1].calls[i]
            b == caller[1].calls[j]
            delay == IF a.svc = "enhanced" THEN delay_between_requests(a.platform)
                     ELSE rate_limit(a.platform)
        IN  (i < j /\ a.svc = b.svc /\ a.platform = b.platform) => b.at - a.at >= delay

\* C13, its case: two calls in a row with the same key, the second of which
\* had to sleep.
C13_Witness ==
    \E i \in 1..Len(caller[1].calls) :
        /\ i > 1
        /\ caller[1].calls[i].svc = caller[1].calls[i - 1].svc
        /\ caller[1].calls[i].platform = caller[1].calls[i - 1].platform
        /\ caller[1].calls[i].slept

C15_ChainFallsThrough ==
    \A r \in RunIds : \A j \in 1..Len(runs[r].log) :
        LET e == runs[r].log[j]
        IN  (e.tried # <<>> /\ e.tried[1] = "twscrape") =>
                IF ~ e.fetched.ok \/ e.fetched.items = <<>>
                THEN Len(e.tried) = 2 /\ e.tried[2] = "nitter"
                ELSE e.tried = <<"twscrape">> /\ e.result.success

\* C16: the sources a run has gone through, and the one it is at, are the
\* rows that were active in the Source table when the run queried it, in
\* that order, whatever the sources API has done to the table since.
C16_ProcessesLoadedSet ==
    \A r \in RunIds :
        LET rec == runs[r]
            active == SelectSeq(rec.at_load, LAMBDA s : s.is_active = TRUE)
        IN  /\ Len(rec.log) <= Len(active)
            /\ \A j \in 1..Len(rec.log) : rec.log[j].source = active[j].id
            /\ rec.pc \in {"fetch", "entry", "insert"} =>
                   /\ rec.i = Len(rec.log) + 1
                   /\ rec.i <= Len(active)
                   /\ CurrentSource(r).id = active[rec.i].id
            /\ (rec.pc = "returned" /\ ~ rec.load_error) => Len(rec.log) = Len(active)

\* C16, its case: a run has returned after going through a source that was
\* deleted while it ran, and another is at its last source while the table
\* holds an active source that was added after it had queried the table.
C16_Witness ==
    \E r, q \in RunIds :
        /\ runs[r].pc = "returned"
        /\ \E j \in 1..Len(runs[r].log) : ~ runs[r].log[j].in_table
        /\ runs[q].pc = "entry" /\ runs[q].i = Len(runs[q].sources)
        /\ \E j \in 1..Len(sourcesTbl) :
             /\ sourcesTbl[j].is_active = TRUE
             /\ \A k \in 1..Len(runs[q].at_load) : runs[q].at_load[k].id # sourcesTbl[j].id

\* C17: when the write of a Topic raised in a source, the source is in the
\* error list of the run as a failed source, the run has gone on to its next
\* source or has completed, and the topics table still holds, among the rows
\* added during that source, as many rows of the source as the run had
\* inserted for it.
C17_WriteErrorFailsSourceOnly ==
    \A r \in RunIds : \A j \in 1..Len(runs[r].log) :
        LET rec == runs[r]
            e == rec.log[j]
            src == rec.sources[j]
            kept == { k \in (e.seen + 1)..e.after :
                        k <= Len(topics) /\ topics[k].source = src.name }
        IN  e.result.error = "db" =>
                /\ ~ e.result.success
                /\ \E k \in 1..Len(rec.errors) : rec.errors[k] = ErrorOf(src.name, "failed", "db")
                /\ IF j < Len(rec.sources)
                   THEN Len(rec.log) > j \/ (rec.i = j + 1 /\ rec.pc \in {"fetch", "entry", "insert"})
                   ELSE rec.pc = "returned" /\ rec.response.success
                /\ Cardinality(kept) >= e.inserted

\* C17, its case: the second write of a source raised after its first one
\* was committed, and the run has finished the source that follows.
C17_Witness ==
    \E r \in RunIds : \E j \in 1..Len(runs[r].log) :
        /\ runs[r].log[j].result.error = "db"
        /\ runs[r].log[j].inserted >= 1
        /\ Len(runs[r].log) > j

\* C18: while one run only has been started, each source it has processed
\* with success and n new items has in the Source table last_scraped_at at
\* the time of the run, last_content_count = n and a total_content_count
\* that is n more than before the run.
C18_StoreHoldsCounters ==
    \A r \in RunIds :
        (\A q \in RunIds : q # r => runs[q].pc = "none") =>
            \A j \in 1..Len(runs[r].log) : \A k \in 1..Len(sourcesTbl) :
                LET e == runs[r].log[j]
                    before == runs[r].at_load[CHOOSE m \in 1..Len(runs[r].at_load) :
                                                  runs[r].at_load[m].id = e.source]
                IN  (e.result.success /\ sourcesTbl[k].id = e.source
                       /\ before.total_content_count # NULL) =>
                        /\ sourcesTbl[k].last_scraped_at = RunTime(r)
                        /\ sourcesTbl[k].last_content_count = e.result.new_content_count
                        /\ sourcesTbl[k].total_content_count =
                               before.total_content_count + e.result.new_content_count

\* C19: a source whose entries were rejected by the quality gate or by the
\* dedup query has a successful result without error text, and the result of
\* every strategy has processed_count = new_content_count + skipped_count.
C19_RejectedCountedAsSkipped ==
    \A r \in RunIds : \A j \in 1..Len(runs[r].log) :
        LET e == runs[r].log[j]
        IN  (e.result.success /\ e.fetched.ok) =>
                e.result.processed_count = e.result.new_content_count + e.result.skipped_count

\* C20: for a title and a body without spam phrase the gate accepts
\* exactly when the title has 10 to 300 characters and the body 50 to 5000:
\* it accepts 10 with 50 and 300 with 5000, and rejects 9, 49, 301 and 5001.
\* A title with a spam phrase is rejected at any length.
C20_GateBoundaries ==
    gate.pc = "returned" =>
        gate.verdict = (/\ ~ gate.spam
                        /\ Len(gate.title) >= 10 /\ Len(gate.title) <= 300
                        /\ Len(gate.content) >= 50 /\ Len(gate.content) <= 5000)

\* C20, its case: the gate has accepted a title of 10 characters with a body
\* of 50.
C20_Witness ==
    /\ gate.pc = "returned"
    /\ Len(gate.title) = 10 /\ Len(gate.content) = 50
    /\ gate.verdict

\* C21: the popularity score a strategy gives to a Topic is between 0 and
\* 100 points.
C21_PopularityBounded ==
    scoring.pc = "returned" => (scoring.score >= 0 /\ scoring.score <= 100 * Point)

\* C22: a step in which scrape_all_sources returns leaves the status at
\* completed or failed, whatever the number of active sources.
C22_ReturnLeavesRunning ==
    [][(\E r \in RunIds : runs[r].pc # "returned" /\ runs'[r].pc = "returned")
          => scraping_status'.status \in {"completed", "failed"}]_vars

\* C23: any two calls of _apply_rate_limiting with the same platform key,
\* by one flow or by two, return at least the delay of the key apart.
C23_ConcurrentCallsSpaced ==
    \A f, g \in Flows :
        \A i \in 1..Len(caller[f].calls), j \in 1..Len(caller[g].calls) :
            LET a == caller[f].calls[i]
                b == caller[g].calls[j]
            IN  (<<f, i>> # <<g, j>> /\ a.platform = b.platform /\ a.at <= b.at) =>
                    b.at - a.at >= delay_between_requests(a.platform)

\* C24: the status that a run has set up at its start shows the errors and
\* the new-content count of that run only, nothing of an earlier run.
C24_StatusOfLatestRunOnly ==
    \A r \in RunIds :
        (scraping_status.start_time = RunTime(r)
           /\ scraping_status.status \in {"running", "completed"}) =>
            /\ scraping_status.errors = runs[r].errors
            /\ scraping_status.new_content_count = runs[r].total_new_content

\* C25: a step in which a run enters the iteration of a source raises
\* processed by one and sets current_source to the name of that source;
\* after every step processed is between 0 and total once total is set; and
\* a step in which the loop of a run ends leaves processed = total.
C25_ProgressPerIteration ==
    [][/\ \A r \in RunIds :
            (runs'[r].pc = "fetch" /\ runs'[r].i # runs[r].i) =>
                /\ scraping_status'.processed = scraping_status.processed + 1
                /\ scraping_status'.current_source = runs'[r].sources[runs'[r].i].name
       /\ scraping_status'.total > 0 =>
            (scraping_status'.processed >= 0
               /\ scraping_status'.processed <= scraping_status'.total)
       /\ \A r \in RunIds :
            (runs[r].pc \in {"fetch", "entry", "insert"} /\ runs'[r].pc = "returned") =>
                scraping_status'.processed = scraping_status'.total]_vars

\* the number of topics rows a run has inserted in the sources of log
RECURSIVE InsertedIn(_)
InsertedIn(log) ==
    IF log = <<>> THEN 0 ELSE Head(log).inserted + InsertedIn(Tail(log))

\* C26: when the loop of a run has ended, total_new_content of the summary
\* is the number of topics rows the run inserted, and so is new_content_count
\* of the status while the status is that of this run.
C26_TotalIsInsertedRows ==
    \A r \in RunIds :
        (runs[r].pc = "returned" /\ runs[r].sources # <<>> /\ ~ runs[r].load_error) =>
            /\ runs[r].response.total_new_content = InsertedIn(runs[r].log)
            /\ (scraping_status.start_time = RunTime(r)
                  /\ scraping_status.status = "completed") =>
                   scraping_status.new_content_count = InsertedIn(runs[r].log)

\* C27: when the loop of a run has ended, the number of sources counted as
\* processed and the number of entries of errors add up to the number of
\* sources the run loaded.
C27_EverySourceOnce ==
    \A r \in RunIds :
        (runs[r].pc = "returned" /\ runs[r].sources # <<>> /\ ~ runs[r].load_error) =>
            runs[r].response.sources_processed + Len(runs[r].response.errors)
                = runs[r].response.total_sources

\* C28: the errors of a run, in its own list and in its summary, are in the
\* order in which the run went through its sources: of two entries, the
\* earlier one is of the source that comes first among the loaded sources;
\* and the status shows the same list while no other run has been requested.
C28_ErrorsInSourceOrder ==
    \A r \in RunIds :
        LET rec == runs[r]
            Pos(name) == CHOOSE j \in 1..Len(rec.sources) : rec.sources[j].name = name
        IN  /\ \A m, n \in 1..Len(rec.errors) :
                 m < n => Pos(rec.errors[m].source) < Pos(rec.errors[n].source)
            /\ (rec.pc = "returned" /\ rec.sources # <<>> /\ ~ rec.load_error) =>
                 rec.response.errors = rec.errors
            /\ (/\ rec.pc \notin {"none", "queued"}
                /\ \A q \in RunIds : q # r => runs[q].pc = "none"
                /\ scraping_status.status \in {"running", "completed"}) =>
                 scraping_status.errors = rec.errors

\* C28, its case: a run has returned with the errors of two sources.
C28_Witness ==
    \E r \in RunIds :
        /\ runs[r].pc = "returned"
        /\ Len(runs[r].response.errors) >= 2
        /\ runs[r].response.errors[1].source # runs[r].response.errors[2].source

\* C29: a source whose platform is none of the known kinds is given to no
\* strategy: nothing is fetched and no Topic is inserted for it, the run's
\* error list has exactly one entry for it, and the run goes on to the next
\* source (or to its summary when the source was the last one).
C29_UnknownPlatformSkipped ==
    LET KnownKinds == {"youtube", "rss", "blog", "rss/blog", "instagram",
                       "twitter", "x", "website"}
        Unknown(src) == PlatformLower(src.platform) \notin KnownKinds
    IN  /\ \A k \in 1..Len(topics) : \A c \in 1..Len(Catalogue) :
              Unknown(Catalogue[c]) => topics[k].source # Catalogue[c].name
        /\ \A r \in RunIds : \A j \in 1..Len(runs[r].log) :
              LET rec == runs[r]
                  e == rec.log[j]
                  src == rec.sources[j]
              IN  Unknown(src) =>
                    /\ e.source = src.id
                    /\ e.strat = "unsupported"
                    /\ e.fetched = NoRun.fetched /\ e.tried = <<>>
                    /\ e.inserted = 0 /\ e.after = e.seen
                    /\ ~ e.result.success /\ e.result.new_content_count = 0
                    /\ Cardinality({ m \in 1..Len(rec.errors) :
                                       rec.errors[m].source = src.name }) = 1
                    /\ IF j < Len(rec.sources)
                       THEN rec.i > j /\ rec.pc \in {"fetch", "entry", "insert", "returned"}
                       ELSE rec.pc = "returned" /\ rec.response.success

\* C29, its case: a run has returned after a source of an unknown platform
\* and then a source that was fetched.
C29_Witness ==
    \E r \in RunIds : \E j \in 1..Len(runs[r].log) :
        /\ runs[r].pc = "returned"
        /\ runs[r].log[j].strat = "unsupported"
        /\ j < Len(runs[r].log)
        /\ runs[r].log[j + 1].fetched.ok

\* C30: a source declared as website whose url ends in .rss, .xml or /feed
\* (with or without a closing slash, in any letter case) is fetched with the
\* feed strategy while its platform stays website in the run's copy and in
\* the Source table; a website source with any other url is fetched with
\* the website strategy.
C30_WebsiteFeedOverride ==
    LET Ends(url) ==
            \E suffix \in { <<".","r","s","s">>, <<".","x","m","l">>,
                             <<"/","f","e","e","d">>, <<"/","f","e","e","d","/">> } :
                IsSuffix(suffix, Lower(url))
    IN  \A r \in RunIds : \A j \in 1..Len(runs[r].log) :
            LET e == runs[r].log[j]
                src == runs[r].sources[j]
            IN  (e.source = src.id /\ PlatformLower(Catalogue[src.id].platform) = "website") =>
                  /\ e.strat = IF Ends(src.url) THEN "rss" ELSE "website"
                  /\ src.platform = Catalogue[src.id].platform
                  /\ \A k \in 1..Len(sourcesTbl) :
                        sourcesTbl[k].id = src.id =>
                            sourcesTbl[k].platform = Catalogue[src.id].platform

\* C30, its case: a run has fetched the feed of a source that is declared
\* as website, and the table still holds the source as website.
C30_Witness ==
    \E r \in RunIds : \E j \in 1..Len(runs[r].log) : \E k \in 1..Len(sourcesTbl) :
        /\ runs[r].log[j].source = sourcesTbl[k].id
        /\ sourcesTbl[k].platform = "website"
        /\ IsSuffix(<<".","x","m","l">>, Lower(sourcesTbl[k].url))
        /\ runs[r].log[j].strat = "rss"
        /\ runs[r].log[j].fetched.ok

\* C31: the interval the rate limiter used for a source is the one configured
\* for the platform kind whose strategy fetched the source, and the default
\* interval when the source's platform has no strategy.
C31_IntervalOfStrategyKind ==
    LET KindOf(strat) ==
            IF strat \in {"twitter", "twscrape", "nitter"} THEN "twitter" ELSE strat
    IN  \A r \in RunIds : \A j \in 1..Len(runs[r].log) :
            runs[r].log[j].delay = delay_between_requests(KindOf(runs[r].log[j].strat))

\* C32: a run that has started returns with its status completed or failed,
\* also when the upstream of one of its sources never responds.
C32_RunTerminates ==
    \A r \in RunIds :
        (runs[r].pc = "load") ~>
            (runs[r].pc = "returned" /\ scraping_status.status \in {"completed", "failed"})

\* C33: a step of a run leaves the status and the liked and disliked times
\* of every stored Topic as they were, and a Topic it adds has status
\* pending and neither time.
C33_TopicsPendingAndUntouched ==
    [][ /\ Len(topics') >= Len(topics)
        /\ \A k \in 1..Len(topics) :
              /\ topics'[k].status = topics[k].status
              /\ topics'[k].liked_at = topics[k].liked_at
              /\ topics'[k].disliked_at = topics[k].disliked_at
        /\ \A k \in (Len(topics) + 1)..Len(topics') :
              /\ topics'[k].status = "pending"
              /\ topics'[k].liked_at = NULL
              /\ topics'[k].disliked_at = NULL ]_vars

\* C33, its case: a run has added a Topic to a table that held a liked one.
C33_Witness ==
    \E r \in RunIds : \E j, k \in 1..Len(topics) :
        /\ runs[r].log # <<>>
        /\ runs[r].log[1].inserted > 0
        /\ j < k
        /\ topics[j].status = "liked" /\ topics[j].liked_at # NULL
        /\ topics[k].status = "pending"

C35_StatsStatusAgrees ==
    (sched_status = "running") <=> (\E r \in RunIds : InProgress(r))

\* C36: the feed strategy goes through the first 20 entries of a feed and
\* the video-channel strategy through the first 15, in feed order; nothing
\* of a later entry is checked or stored, and one pass over a source adds at
\* most 20 (15) Topics.
C36_CapsFromTheFront ==
    LET CapOf(strat) == IF strat = "rss" THEN 20 ELSE 15
        src == sourcesTbl[1]
        strat == Strategy(src)
    IN  /\ \A r \in RunIds :
              /\ runs[r].pc \in {"entry", "insert"} =>
                    /\ runs[r].k <= CapOf(strat)
                    /\ Len(runs[r].items) <= CapOf(strat)
                    /\ \A j \in 1..Len(runs[r].items) :
                          runs[r].items[j] = runs[r].fetched.items[j]
              /\ \A j \in 1..Len(runs[r].log) :
                    /\ runs[r].log[j].inserted <= CapOf(strat)
                    /\ runs[r].log[j].result.processed_count <= CapOf(strat)
                    /\ runs[r].log[j].result.new_content_count <= CapOf(strat)
        /\ \A k \in 1..Len(topics) :
              \E j \in 1..CapOf(strat) :
                  /\ topics[k] = DraftOf(strat, LongIds[j], src).topic
                  /\ \A m \in 1..(k - 1) :
                        \E i \in 1..(j - 1) :
                            topics[m] = DraftOf(strat, LongIds[i], src).topic

\* C36, its case: a run has returned from a feed with more entries than the
\* strategy reads, and has stored as many Topics as the strategy reads.
C36_Witness ==
    \E r \in RunIds :
        /\ runs[r].pc = "returned"
        /\ runs[r].log # <<>>
        /\ Len(runs[r].log[1].fetched.items) > runs[r].log[1].inserted
        /\ runs[r].log[1].inserted \in {15, 20}
        /\ runs[r].log[1].inserted = Len(topics)

\* C37: a video-channel source whose url is neither a channel-id url nor a
\* playlist url is fetched only when the resolver has found its channel id;
\* when the resolver has failed or is not installed the strategy returns a
\* failure with an error text, without a fetch and without a new Topic.
C37_NoGuessedFeed ==
    \A r \in RunIds : \A j \in 1..Len(runs[r].log) :
        LET e == runs[r].log[j]
            src == runs[r].sources[j]
        IN  (src.platform = "youtube" /\ src.shape \notin {"feedsxml", "channel", "playlist"}) =>
              /\ e.fetched.ok => e.resolver = "ok"
              /\ e.resolver \in {"failed", "unavailable"} =>
                    /\ ~ e.result.success /\ e.result.error # ""
                    /\ e.result.new_content_count = 0
                    /\ ~ e.fetched.ok
                    /\ e.inserted = 0 /\ e.after = e.seen

\* C37, its case: a run has finished a channel given by its handle after the
\* resolver had failed.
C37_Witness ==
    \E r \in RunIds : \E j \in 1..Len(runs[r].log) :
        /\ runs[r].sources[j].shape = "custom"
        /\ runs[r].log[j].resolver = "failed"
        /\ ~ runs[r].log[j].result.success

C39_StoredWithinBounds ==
    \A k \in 1..Len(topics) :
        /\ Len(topics[k].title) >= min_title_length
        /\ Len(topics[k].title) <= max_title_length
        /\ Len(topics[k].content) >= min_content_length
        /\ Len(topics[k].content) <= max_content_length

====
